---- MODULE Spec2Model ----
(***************************************************************************)
(* A model of autowire's analyzer (internal/analyzer/analyzer.go) and of   *)
(* the data it works on (internal/types/types.go).                         *)
(*                                                                         *)
(* Go strings are modelled as sequences of one-character strings, so that  *)
(* TypeRef.Key, fmt.Sprintf("%s%d"), sort.Strings and filepath.Base are    *)
(* computed character by character as the code computes them.             *)
(***************************************************************************)
EXTENDS Integers, Sequences, FiniteSets, TLC

VARIABLES
    call,      \* the function under call: "Analyze" or one of its helpers
    parsed,    \* the *types.ParseResult argument (providers, invocations, output identity)
    paths,     \* the path set argument of a direct resolveImportAliases call
    resolver,  \* the types.PackageNameResolver argument: import path -> short name
    pc,        \* "call" before the function has run, "return" after
    result,    \* Analyze's *Result (Nil when an error is returned)
    err,       \* the returned error (Nil when there is none)
    ret,       \* the value returned by a direct helper call
    scanDirs,  \* run: what parser.Parse finds in each root still to scan
    code,      \* run: the text returned by generator.Generate (Nil before)
    file,      \* run: the output file (Nil while untouched)
    ip,        \* generated entry point: the index of the next statement
    ran,       \* generated entry point: the statements executed, in order
    returned,  \* generated entry point: what it returned (Nil while running)
    cache,     \* Resolver.cache: import path -> short name
    callers,   \* the concurrent calls of Resolver.ResolveName
    topo       \* topoSort step by step: its locals and the pending calls of visit

runVars == <<scanDirs, code, file>>

appVars == <<ip, ran, returned>>

resolverVars == <<cache, callers>>

vars == <<call, parsed, paths, resolver, pc, result, err, ret,
          runVars, appVars, resolverVars, topo>>

\* Go's nil (a nil error, a nil *Result)
Nil == [kind |-> "nil"]

----------------------------------------------------------------------------
(* Bounds of the model *)

\* providers of an input that stresses the dependency graph
MaxProviders == 2
\* invocations of an input
MaxInvocations == 1
\* dependencies declared in an input, over all providers and invocations
MaxEdges == 2
\* providers of an input that stresses the naming, and names of a direct call
MaxNames == 3
\* roots given to one run of the tool
MaxRoots == 2
\* concurrent calls of ResolveName on one Resolver
MaxCallers == 2
\* top-level declarations of the first file of a scanned directory
MaxDecls == 2

----------------------------------------------------------------------------
(* Strings *)

\* The characters the model uses, in increasing byte order.
Alphabet ==
    <<"*", ".", "/", "0", "1", "2", "3", "4", "5", "6", "7", "8", "9",
      "C", "D", "S", "a", "b", "c", "d", "f", "g", "h", "i", "n", "r", "s", "t", "v", "w">>

Code(c) == CHOOSE i \in 1..Len(Alphabet) : Alphabet[i] = c

UpperCase == {"C", "D", "S"}

IsUpper(c) == c \in UpperCase

ToLower(c) ==
    CASE c = "C" -> "c"
      [] c = "D" -> "d"
      [] c = "S" -> "s"
      [] OTHER -> c

\* strings.ToLower
LowerStr(s) == [i \in 1..Len(s) |-> ToLower(s[i])]

\* Go's < on strings: lexicographic by byte
RECURSIVE StrLess(_, _)
StrLess(a, b) ==
    IF Len(b) = 0 THEN FALSE
    ELSE IF Len(a) = 0 THEN TRUE
    ELSE IF a[1] = b[1] THEN StrLess(Tail(a), Tail(b))
    ELSE Code(a[1]) < Code(b[1])

\* the decimal digits of n >= 0, as fmt's %d prints them
DigitChar(d) == Alphabet[Code("0") + d]

RECURSIVE Itoa(_)
Itoa(n) == IF n < 10 THEN <<DigitChar(n)>> ELSE Itoa(n \div 10) \o <<DigitChar(n % 10)>>

\* fmt.Sprintf("%s%d", base, count)
SprintfSD(base, count) == base \o Itoa(count)

\* sort.Strings: the elements of the slice in increasing order
RECURSIVE SortStrings(_)
SortStrings(slice) ==
    IF slice = <<>> THEN <<>>
    ELSE LET x == Head(slice)
             Insert(sorted) ==
                 LET k == Cardinality({i \in 1..Len(sorted) : StrLess(sorted[i], x)})
                 IN  SubSeq(sorted, 1, k) \o <<x>> \o SubSeq(sorted, k + 1, Len(sorted))
         IN  CHOOSE out \in {Insert(rest) : rest \in {SortStrings(Tail(slice))}} : TRUE

\* filepath.Base for a path without trailing slash: the part after the last "/"
Base(p) ==
    IF Len(p) = 0 THEN <<".">>
    ELSE IF \E i \in 1..Len(p) : p[i] = "/"
         THEN LET i == CHOOSE j \in 1..Len(p) : p[j] = "/" /\ \A k \in (j+1)..Len(p) : p[k] # "/"
              IN  SubSeq(p, i + 1, Len(p))
         ELSE p

\* parser.toLowerCamel
toLowerCamel(s) ==
    LET n == Len(s)
        upper0 == Cardinality({i \in 1..n : \A j \in 1..i : IsUpper(s[j])})
        upper == IF upper0 > 1 /\ upper0 < n THEN upper0 - 1 ELSE upper0
    IN  IF n = 0 \/ upper0 = 0 THEN s
        ELSE LowerStr(SubSeq(s, 1, upper)) \o SubSeq(s, upper + 1, n)

----------------------------------------------------------------------------
(* types.go *)

ProviderKindStruct == 0
ProviderKindFunc == 1

\* TypeRef.Key
Key(t) ==
    LET prefix == IF t.IsPointer THEN <<"*">> ELSE <<>>
    IN  IF t.ImportPath = <<>> THEN prefix \o t.Name
        ELSE prefix \o t.ImportPath \o <<".">> \o t.Name

----------------------------------------------------------------------------
(* analyzer.go *)

EmptyMap == [k \in {} |-> Nil]

\* m[k] of a Go map[string]int: the zero value when k is absent
CountOf(m, k) == IF k \in DOMAIN m THEN m[k] ELSE 0

\* m[k] = v
MapSet(m, k, v) == [x \in DOMAIN m \cup {k} |-> IF x = k THEN v ELSE m[x]]

DuplicateError(key, first, second) ==
    [kind |-> "duplicate", key |-> key, first |-> first, second |-> second]

MissingError(missing) == [kind |-> "missing", missing |-> missing]

CycleError(path) == [kind |-> "cycle", path |-> path]

\* Analyze, lines 20-27: the index by provided-type key, or the duplicate error
RECURSIVE IndexLoop(_, _, _)
IndexLoop(providers, i, byType) ==
    IF i > Len(providers) THEN [err |-> Nil, byType |-> byType]
    ELSE LET p == providers[i]
             key == Key(p.ProvidedType)
         IN  IF key \in DOMAIN byType
             THEN [err |-> DuplicateError(key, byType[key].Name, p.Name), byType |-> byType]
             ELSE IndexLoop(providers, i + 1, MapSet(byType, key, p))

\* a variant that lets the last provider of a key win instead of failing
buildIndexLastWins(providers) ==
    [err |-> Nil,
     byType |-> [k \in {Key(providers[i].ProvidedType) : i \in 1..Len(providers)} |->
                    providers[CHOOSE i \in 1..Len(providers) :
                                  /\ Key(providers[i].ProvidedType) = k
                                  /\ \A j \in (i + 1)..Len(providers) :
                                         Key(providers[j].ProvidedType) # k]]]

buildIndex(providers) == IndexLoop(providers, 1, EmptyMap)

\* the "requires" entries of one requester, in the order of its dependency keys
RECURSIVE MissingOf(_, _, _, _)
MissingOf(name, keys, j, byType) ==
    IF j > Len(keys) THEN <<>>
    ELSE (IF keys[j] \in DOMAIN byType THEN <<>>
          ELSE <<[requester |-> name, key |-> keys[j]]>>)
         \o MissingOf(name, keys, j + 1, byType)

ProviderDepKeys(p) == [j \in 1..Len(p.Dependencies) |-> Key(p.Dependencies[j].Type)]

InvocationDepKeys(inv) == [j \in 1..Len(inv.Dependencies) |-> Key(inv.Dependencies[j])]

RECURSIVE MissingOfProviders(_, _, _)
MissingOfProviders(providers, i, byType) ==
    IF i > Len(providers) THEN <<>>
    ELSE MissingOf(providers[i].Name, ProviderDepKeys(providers[i]), 1, byType)
         \o MissingOfProviders(providers, i + 1, byType)

RECURSIVE MissingOfInvocations(_, _, _)
MissingOfInvocations(invocations, i, byType) ==
    IF i > Len(invocations) THEN <<>>
    ELSE MissingOf(invocations[i].Name, InvocationDepKeys(invocations[i]), 1, byType)
         \o MissingOfInvocations(invocations, i + 1, byType)

\* a variant that reports only the first unmet reference
validateDepsFailFast(providers, invocations, byType) ==
    LET missing == MissingOfProviders(providers, 1, byType)
                   \o MissingOfInvocations(invocations, 1, byType)
    IN  IF Len(missing) > 0 THEN MissingError(<<missing[1]>>) ELSE Nil

validateDeps(providers, invocations, byType) ==
    LET missing == MissingOfProviders(providers, 1, byType)
                   \o MissingOfInvocations(invocations, 1, byType)
    IN  IF Len(missing) > 0 THEN MissingError(missing) ELSE Nil

\* topoSort's local state: the visited and inStack maps (as the sets of keys
\* mapped to true), the result slice and the error of the visit that failed
TopoInit == [visited |-> {}, inStack |-> {}, result |-> <<>>, err |-> Nil]

\* F applied to the value of v, with v evaluated once however often F uses it
Bind(F(_), v) == CHOOSE out \in {F(x) : x \in {v}} : TRUE

RECURSIVE visit(_, _, _, _), VisitDeps(_, _, _, _, _)

\* a variant that emits a provider before its dependencies (pre-order)
visitPreOrder(p, path, st, byType) ==
    LET key == Key(p.ProvidedType)
        Leave(after) ==
            IF after.err # Nil THEN after
            ELSE [after EXCEPT !.inStack = @ \ {key}, !.visited = @ \cup {key}]
    IN  IF key \in st.inStack THEN [st EXCEPT !.err = CycleError(path \o <<key>>)]
        ELSE IF key \in st.visited THEN st
        ELSE Bind(Leave, VisitDeps(p.Dependencies, 1, path \o <<key>>,
                                   [st EXCEPT !.inStack = @ \cup {key},
                                              !.result = Append(@, p)], byType))

\* a variant with two states only: a key is marked visited when it is entered
visitTwoStates(p, path, st, byType) ==
    LET key == Key(p.ProvidedType)
        Leave(after) ==
            IF after.err # Nil THEN after ELSE [after EXCEPT !.result = Append(@, p)]
    IN  IF key \in st.visited THEN st
        ELSE Bind(Leave, VisitDeps(p.Dependencies, 1, path \o <<key>>,
                                   [st EXCEPT !.visited = @ \cup {key}], byType))

\* a variant that reports the path without the key that closes the loop
visitOpenPath(p, path, st, byType) ==
    LET key == Key(p.ProvidedType)
        Leave(after) ==
            IF after.err # Nil THEN after
            ELSE [after EXCEPT !.inStack = @ \ {key},
                               !.visited = @ \cup {key},
                               !.result = Append(@, p)]
    IN  IF key \in st.inStack THEN [st EXCEPT !.err = CycleError(path)]
        ELSE IF key \in st.visited THEN st
        ELSE Bind(Leave, VisitDeps(p.Dependencies, 1, path \o <<key>>,
                                   [st EXCEPT !.inStack = @ \cup {key}], byType))

\* a variant that descends again into a provider that is finished
visitRevisits(p, path, st, byType) ==
    LET key == Key(p.ProvidedType)
        Leave(after) ==
            IF after.err # Nil THEN after
            ELSE [after EXCEPT !.inStack = @ \ {key},
                               !.visited = @ \cup {key},
                               !.result = Append(@, p)]
    IN  IF key \in st.inStack THEN [st EXCEPT !.err = CycleError(path \o <<key>>)]
        ELSE Bind(Leave, VisitDeps(p.Dependencies, 1, path \o <<key>>,
                                   [st EXCEPT !.inStack = @ \cup {key}], byType))

\* topoSort's closure visit, lines 95-120
visit(p, path, st, byType) ==
    LET key == Key(p.ProvidedType)
        Leave(after) ==
            IF after.err # Nil THEN after
            ELSE [after EXCEPT !.inStack = @ \ {key},
                               !.visited = @ \cup {key},
                               !.result = Append(@, p)]
    IN  IF key \in st.inStack THEN [st EXCEPT !.err = CycleError(path \o <<key>>)]
        ELSE IF key \in st.visited THEN st
        ELSE Bind(Leave, VisitDeps(p.Dependencies, 1, path \o <<key>>,
                                   [st EXCEPT !.inStack = @ \cup {key}], byType))

\* the loop over p.Dependencies, lines 108-114
VisitDeps(deps, j, path, st, byType) ==
    LET k == Key(deps[j].Type)
        Continue(after) ==
            IF after.err # Nil THEN after
            ELSE VisitDeps(deps, j + 1, path, after, byType)
    IN  IF j > Len(deps) THEN st
        ELSE IF k \in DOMAIN byType THEN Bind(Continue, visit(byType[k], path, st, byType))
        ELSE VisitDeps(deps, j + 1, path, st, byType)

\* the loop over one invocation's dependencies, lines 123-129
RECURSIVE VisitRoots(_, _, _, _)
VisitRoots(keys, j, st, byType) ==
    LET Continue(after) ==
            IF after.err # Nil THEN after
            ELSE VisitRoots(keys, j + 1, after, byType)
    IN  IF j > Len(keys) THEN st
        ELSE IF keys[j] \in DOMAIN byType
             THEN Bind(Continue, visit(byType[keys[j]], <<>>, st, byType))
             ELSE VisitRoots(keys, j + 1, st, byType)

\* the loop over the invocations, lines 122-130
RECURSIVE VisitInvocations(_, _, _, _)
VisitInvocations(invocations, i, st, byType) ==
    LET Continue(after) ==
            IF after.err # Nil THEN after
            ELSE VisitInvocations(invocations, i + 1, after, byType)
    IN  IF i > Len(invocations) THEN st
        ELSE Bind(Continue, VisitRoots(InvocationDepKeys(invocations[i]), 1, st, byType))

\* the loop over the providers in declaration order, lines 132-136
RECURSIVE VisitProviders(_, _, _, _)
VisitProviders(providers, i, st, byType) ==
    LET Continue(after) ==
            IF after.err # Nil THEN after
            ELSE VisitProviders(providers, i + 1, after, byType)
    IN  IF i > Len(providers) THEN st
        ELSE Bind(Continue, visit(providers[i], <<>>, st, byType))

\* a variant that visits the providers in declaration order before the
\* dependencies of the invocations
topoSortProvidersFirst(providers, invocations, byType) ==
    LET Invocations(afterProv) ==
            IF afterProv.err # Nil THEN afterProv
            ELSE VisitInvocations(invocations, 1, afterProv, byType)
        Return(final) ==
            IF final.err # Nil THEN [ordered |-> Nil, err |-> final.err]
            ELSE [ordered |-> final.result, err |-> Nil]
    IN  Bind(Return, Bind(Invocations, VisitProviders(providers, 1, TopoInit, byType)))

\* topoSort: (ordered providers, error); the list is nil when there is an error
topoSort(providers, invocations, byType) ==
    LET Providers(afterInv) ==
            IF afterInv.err # Nil THEN afterInv
            ELSE VisitProviders(providers, 1, afterInv, byType)
        Return(final) ==
            IF final.err # Nil THEN [ordered |-> Nil, err |-> final.err]
            ELSE [ordered |-> final.result, err |-> Nil]
    IN  Bind(Return, Bind(Providers, VisitInvocations(invocations, 1, TopoInit, byType)))

\* a variant that suffixes the 1-based occurrence number (name, name2, name3)
ResolvedVarNameOccurrence(baseName, count) ==
    IF count = 0 THEN baseName ELSE SprintfSD(baseName, count + 1)

\* one iteration of resolveVarNames' loop: the name given to a provider whose
\* base name has been seen count times before
ResolvedVarName(baseName, count) ==
    IF count = 0 THEN baseName ELSE SprintfSD(baseName, count)

RECURSIVE VarNamesLoop(_, _, _)
VarNamesLoop(providers, i, usedNames) ==
    IF i > Len(providers) THEN providers
    ELSE LET baseName == providers[i].VarName
             count == CountOf(usedNames, baseName)
         IN  VarNamesLoop([providers EXCEPT ![i].VarName = ResolvedVarName(baseName, count)],
                          i + 1, MapSet(usedNames, baseName, count + 1))

\* resolveVarNames: the slice after the in-place renaming
resolveVarNames(providers) == VarNamesLoop(providers, 1, EmptyMap)

\* the orders in which a range over a map with these keys can yield them: Go
\* leaves the iteration order of a map unspecified
RECURSIVE RangeOrders(_)
RangeOrders(keys) ==
    IF keys = {} THEN {<<>>}
    ELSE UNION {{<<k>> \o rest : rest \in RangeOrders(keys \ {k})} : k \in keys}

\* a variant that walks the paths as the range yielded them, without sorting
AliasOrderUnsorted(ranged) == ranged

\* sortedPaths: the paths appended in range order (lines 171-174), then sorted
\* (line 175)
AliasOrder(ranged) == SortStrings(ranged)

RECURSIVE AliasLoop(_, _, _, _, _)
AliasLoop(sortedPaths, i, imports, baseCount, rslv) ==
    IF i > Len(sortedPaths) THEN imports
    ELSE LET path == sortedPaths[i]
             base == rslv[path]
             count == CountOf(baseCount, base)
             alias == IF count = 0 THEN <<>> ELSE SprintfSD(base, count)
         IN  AliasLoop(sortedPaths, i + 1, MapSet(imports, path, alias),
                       MapSet(baseCount, base, count + 1), rslv)

\* resolveImportAliases: the alias maps it can return, one for each order in
\* which the range over the path set can run
resolveImportAliases(pathSet, rslv) ==
    LET Aliases(sortedPaths) == AliasLoop(sortedPaths, 1, EmptyMap, EmptyMap, rslv)
    IN  {Bind(Aliases, AliasOrder(ranged)) : ranged \in RangeOrders(pathSet)}

\* the paths collectImports hands to its closure add, lines 150-162
ReferencedPaths(providers, invocations) ==
    {providers[i].ImportPath : i \in 1..Len(providers)}
    \cup UNION {{providers[i].Dependencies[j].Type.ImportPath :
                     j \in 1..Len(providers[i].Dependencies)} : i \in 1..Len(providers)}
    \cup {invocations[i].ImportPath : i \in 1..Len(invocations)}
    \cup UNION {{invocations[i].Dependencies[j].ImportPath :
                     j \in 1..Len(invocations[i].Dependencies)} : i \in 1..Len(invocations)}

\* collectImports with a closure add that skips only the empty path
CollectedPathsSelfImport(providers, invocations, outputPath) ==
    {path \in ReferencedPaths(providers, invocations) : path # <<>>}

\* the set paths that collectImports builds: add skips "" and the output path
CollectedPaths(providers, invocations, outputPath) ==
    {path \in ReferencedPaths(providers, invocations) : path # <<>> /\ path # outputPath}

\* the paths in the order of the calls of add: each provider's namespace and
\* its dependencies', then each invocation's namespace and its dependencies'
RECURSIVE AddCalls(_, _, _)
AddCalls(providers, invocations, i) ==
    IF i <= Len(providers)
    THEN <<providers[i].ImportPath>>
         \o [j \in 1..Len(providers[i].Dependencies) |->
                 providers[i].Dependencies[j].Type.ImportPath]
         \o AddCalls(providers, invocations, i + 1)
    ELSE IF i <= Len(providers) + Len(invocations)
    THEN LET inv == invocations[i - Len(providers)]
         IN  <<inv.ImportPath>>
             \o [j \in 1..Len(inv.Dependencies) |-> inv.Dependencies[j].ImportPath]
             \o AddCalls(providers, invocations, i + 1)
    ELSE <<>>

\* a variant that keeps the paths in a slice and hands out the aliases in the
\* order of first reference
collectImportsFirstSeen(providers, invocations, outputPath, rslv) ==
    LET calls == AddCalls(providers, invocations, 1)
        kept == SelectSeq(calls, LAMBDA path : path # <<>> /\ path # outputPath)
        first == {i \in 1..Len(kept) : \A e \in 1..(i - 1) : kept[e] # kept[i]}
        Nth(k) == CHOOSE i \in first : Cardinality({e \in first : e < i}) = k - 1
    IN  {AliasLoop([k \in 1..Cardinality(first) |-> kept[Nth(k)]],
                   1, EmptyMap, EmptyMap, rslv)}

\* collectImports: the alias maps it can return
collectImports(providers, invocations, outputPath, rslv) ==
    resolveImportAliases(CollectedPaths(providers, invocations, outputPath), rslv)

\* a best-effort variant: on a cycle it returns the error together with a
\* result that holds the providers in declaration order, named, without aliases
AnalyzeBestEffort(in, rslv) ==
    LET Finish(ordered) ==
            {[result |-> [Providers |-> ordered,
                          Invocations |-> in.Invocations,
                          PackageName |-> in.OutputPackage,
                          OutputImportPath |-> in.OutputImportPath,
                          Imports |-> imports],
              err |-> Nil] :
                 imports \in collectImports(ordered, in.Invocations,
                                            in.OutputImportPath, rslv)}
        Sorted(sorted) ==
            IF sorted.err # Nil
            THEN {[result |-> [Providers |-> resolveVarNames(in.Providers),
                               Invocations |-> in.Invocations,
                               PackageName |-> in.OutputPackage,
                               OutputImportPath |-> in.OutputImportPath,
                               Imports |-> EmptyMap],
                   err |-> sorted.err]}
            ELSE Bind(Finish, resolveVarNames(sorted.ordered))
        Indexed(index) ==
            LET Validated(missing) ==
                    IF missing # Nil THEN {[result |-> Nil, err |-> missing]}
                    ELSE Bind(Sorted, topoSort(in.Providers, in.Invocations, index.byType))
            IN  IF index.err # Nil THEN {[result |-> Nil, err |-> index.err]}
                ELSE Bind(Validated, validateDeps(in.Providers, in.Invocations, index.byType))
    IN  Bind(Indexed, buildIndex(in.Providers))

\* a variant that sorts before it validates the dependencies
AnalyzeSortsFirst(in, rslv) ==
    LET Finish(ordered) ==
            {[result |-> [Providers |-> ordered,
                          Invocations |-> in.Invocations,
                          PackageName |-> in.OutputPackage,
                          OutputImportPath |-> in.OutputImportPath,
                          Imports |-> imports],
              err |-> Nil] :
                 imports \in collectImports(ordered, in.Invocations,
                                            in.OutputImportPath, rslv)}
        Indexed(index) ==
            LET Validated(sorted) ==
                    LET missing == validateDeps(in.Providers, in.Invocations, index.byType)
                    IN  IF missing # Nil THEN {[result |-> Nil, err |-> missing]}
                        ELSE Bind(Finish, resolveVarNames(sorted.ordered))
                Sorted(sorted) ==
                    IF sorted.err # Nil THEN {[result |-> Nil, err |-> sorted.err]}
                    ELSE Validated(sorted)
            IN  IF index.err # Nil THEN {[result |-> Nil, err |-> index.err]}
                ELSE Bind(Sorted, topoSort(in.Providers, in.Invocations, index.byType))
    IN  Bind(Indexed, buildIndex(in.Providers))

\* Analyze: the pairs (*Result, error) it can return, one for each alias map
\* that collectImports can return
Analyze(in, rslv) ==
    LET Finish(ordered) ==
            {[result |-> [Providers |-> ordered,
                          Invocations |-> in.Invocations,
                          PackageName |-> in.OutputPackage,
                          OutputImportPath |-> in.OutputImportPath,
                          Imports |-> imports],
              err |-> Nil] :
                 imports \in collectImports(ordered, in.Invocations,
                                            in.OutputImportPath, rslv)}
        Sorted(sorted) ==
            IF sorted.err # Nil THEN {[result |-> Nil, err |-> sorted.err]}
            ELSE Bind(Finish, resolveVarNames(sorted.ordered))
        Indexed(index) ==
            LET Validated(missing) ==
                    IF missing # Nil THEN {[result |-> Nil, err |-> missing]}
                    ELSE Bind(Sorted, topoSort(in.Providers, in.Invocations, index.byType))
            IN  IF index.err # Nil THEN {[result |-> Nil, err |-> index.err]}
                ELSE Bind(Validated, validateDeps(in.Providers, in.Invocations, index.byType))
    IN  Bind(Indexed, buildIndex(in.Providers))

----------------------------------------------------------------------------
(* The emitter (generator.Generate), after section 4.2 of the design and the *)
(* calls and expected lines of generator_test.go. The program text is kept  *)
(* as its parts: package clause, import entries, aggregate fields and the   *)
(* statements of the entry point, each with the names it is written with.   *)

\* m[k] of a Go map[string]string: the empty string when k is absent
StrOf(m, k) == IF k \in DOMAIN m THEN m[k] ELSE <<>>

\* the local name of a namespace: its alias when it has one, else its short name
pkgName(importPath, imports, rslv) ==
    IF StrOf(imports, importPath) # <<>> THEN imports[importPath] ELSE rslv[importPath]

\* a function or type name as the generated file refers to it
qualifiedName(name, importPath, outPath, imports, rslv) ==
    IF importPath = <<>> \/ importPath = outPath THEN name
    ELSE pkgName(importPath, imports, rslv) \o <<".">> \o name

formatType(t, outPath, imports, rslv) ==
    (IF t.IsPointer THEN <<"*">> ELSE <<>>)
        \o qualifiedName(t.Name, t.ImportPath, outPath, imports, rslv)

\* the resolved variable name of the provider of each key
VarsOf(providers) ==
    [k \in {Key(providers[i].ProvidedType) : i \in 1..Len(providers)} |->
        providers[CHOOSE i \in 1..Len(providers) :
                      Key(providers[i].ProvidedType) = k].VarName]

\* the resolved variable names of the required types, in declared order
makeArgs(required, names) == [j \in 1..Len(required) |-> StrOf(names, Key(required[j]))]

\* one statement of the entry point
Stmt(op, var, target, args, fields, failable) ==
    [op |-> op, var |-> var, target |-> target, args |-> args, fields |-> fields,
     failable |-> failable]

\* a variant that assigns every dependency, with or without a field name
writeStructInitAllDeps(p, names, outPath, imports, rslv) ==
    <<Stmt("struct", p.VarName, formatType(p.ProvidedType, outPath, imports, rslv),
           <<>>,
           [j \in 1..Len(p.Dependencies) |->
               [name |-> p.Dependencies[j].FieldName,
                value |-> StrOf(names, Key(p.Dependencies[j].Type))]],
           FALSE)>>

\* struct kind: an instance with one assignment per dependency that has a
\* field name
writeStructInit(p, names, outPath, imports, rslv) ==
    LET tagged == SelectSeq(p.Dependencies, LAMBDA d : d.FieldName # <<>>)
    IN  <<Stmt("struct", p.VarName, formatType(p.ProvidedType, outPath, imports, rslv),
               <<>>,
               [j \in 1..Len(tagged) |->
                   [name |-> tagged[j].FieldName,
                    value |-> StrOf(names, Key(tagged[j].Type))]],
               FALSE)>>

\* a variant that guards every call of a function, failable or not
writeFuncInitAlwaysGuarded(p, names, outPath, imports, rslv) ==
    <<Stmt("call", p.VarName, qualifiedName(p.Name, p.ImportPath, outPath, imports, rslv),
           makeArgs([j \in 1..Len(p.Dependencies) |-> p.Dependencies[j].Type], names),
           <<>>, TRUE),
      Stmt("guard", <<>>, <<>>, <<>>, <<>>, FALSE)>>

\* function kind: the call with its positional arguments; when it can fail
\* it binds the error, and a guard that returns nil and the error follows
writeFuncInit(p, names, outPath, imports, rslv) ==
    <<Stmt("call", p.VarName, qualifiedName(p.Name, p.ImportPath, outPath, imports, rslv),
           makeArgs([j \in 1..Len(p.Dependencies) |-> p.Dependencies[j].Type], names),
           <<>>, p.CanError)>>
    \o (IF p.CanError THEN <<Stmt("guard", <<>>, <<>>, <<>>, <<>>, FALSE)>> ELSE <<>>)

\* an invocation: the call, wrapped in the guard when it can fail
writeInvocation(inv, names, outPath, imports, rslv) ==
    <<Stmt("invoke", <<>>, qualifiedName(inv.Name, inv.ImportPath, outPath, imports, rslv),
           makeArgs(inv.Dependencies, names), <<>>, inv.CanError)>>

writeProvider(p, names, outPath, imports, rslv) ==
    IF p.Kind = ProviderKindStruct THEN writeStructInit(p, names, outPath, imports, rslv)
    ELSE writeFuncInit(p, names, outPath, imports, rslv)

\* a variant that emits each invocation as soon as the providers before it
\* in the result are initialized, the i-th invocation after the i-th provider
RECURSIVE writeBodyInterleaved(_, _, _, _)
writeBodyInterleaved(r, i, names, rslv) ==
    IF i <= Len(r.Providers) \/ i <= Len(r.Invocations)
    THEN (IF i <= Len(r.Providers)
          THEN writeProvider(r.Providers[i], names, r.OutputImportPath, r.Imports, rslv)
          ELSE <<>>)
         \o (IF i <= Len(r.Invocations)
             THEN writeInvocation(r.Invocations[i], names, r.OutputImportPath,
                                  r.Imports, rslv)
             ELSE <<>>)
         \o writeBodyInterleaved(r, i + 1, names, rslv)
    ELSE <<Stmt("return", <<>>, <<>>, <<>>,
                [j \in 1..Len(r.Providers) |->
                    [name |-> r.Providers[j].ProvidedType.Name,
                     value |-> r.Providers[j].VarName]],
                FALSE)>>

\* the statements of the entry point: the providers in the order of the
\* result, then the invocations in the order of the result, then the return
\* of the populated aggregate
RECURSIVE writeBody(_, _, _, _)
writeBody(r, i, names, rslv) ==
    IF i <= Len(r.Providers)
    THEN writeProvider(r.Providers[i], names, r.OutputImportPath, r.Imports, rslv)
         \o writeBody(r, i + 1, names, rslv)
    ELSE IF i <= Len(r.Providers) + Len(r.Invocations)
    THEN writeInvocation(r.Invocations[i - Len(r.Providers)], names,
                         r.OutputImportPath, r.Imports, rslv)
         \o writeBody(r, i + 1, names, rslv)
    ELSE <<Stmt("return", <<>>, <<>>, <<>>,
                [j \in 1..Len(r.Providers) |->
                    [name |-> r.Providers[j].ProvidedType.Name,
                     value |-> r.Providers[j].VarName]],
                FALSE)>>

\* the aggregate: one field per provider, named from the provided type
writeAppStruct(providers, outPath, imports, rslv) ==
    [i \in 1..Len(providers) |->
        [name |-> providers[i].ProvidedType.Name,
         type |-> formatType(providers[i].ProvidedType, outPath, imports, rslv)]]

\* the import entries, sorted by path, whatever the order in which the range
\* over the alias map runs
writeImports(imports) ==
    {LET sorted == SortStrings(ranged)
     IN  [i \in 1..Len(sorted) |-> [alias |-> imports[sorted[i]], path |-> sorted[i]]] :
         ranged \in RangeOrders(DOMAIN imports)}

\* Generate: the program texts it can return
Generate(r, rslv) ==
    {[package |-> r.PackageName,
      imports |-> entries,
      fields |-> writeAppStruct(r.Providers, r.OutputImportPath, r.Imports, rslv),
      body |-> writeBody(r, 1, VarsOf(r.Providers), rslv)] :
         entries \in writeImports(r.Imports)}

\* a variant in which Analyze renames the providers of its input
RenamedSliceInput == "parsed"

\* the slice Analyze hands to resolveVarNames (line 38): the one topoSort
\* returned, whose array the appends of line 118 allocated
RenamedSlice == "ordered"

\* the array of in.Providers after a call of Analyze that returned out.  The
\* memory holds two arrays of providers: the one of the input and the one
\* topoSort appended to; resolveVarNames writes to the array of the slice it
\* is handed, and is reached only when there is no error.
InputAfterAnalyze(in, out) ==
    IF out.err # Nil THEN in.Providers
    ELSE LET sorted == topoSort(in.Providers, in.Invocations,
                                buildIndex(in.Providers).byType)
             before == [parsed |-> in.Providers, ordered |-> sorted.ordered]
             after == [before EXCEPT ![RenamedSlice] = resolveVarNames(@)]
         IN  after.parsed

----------------------------------------------------------------------------
(* The inputs: what the scanner (parser.parseFile) hands to the analyzer *)

PathA == <<"a", "/", "h">>
PathB == <<"b", "/", "h">>
PathC == <<"c", "/", "h", "1">>
PathD == <<"d">>
PathW == <<"w">>

NameCfg == <<"C", "f", "g">>
NameCfg1 == <<"C", "f", "g", "1">>
NameString == <<"s", "t", "r", "i", "n", "g">>
NameMain == <<"m", "a", "i", "n">>

TypeCfgA == [Name |-> NameCfg, ImportPath |-> PathA, IsPointer |-> TRUE]
TypeCfgB == [Name |-> NameCfg, ImportPath |-> PathB, IsPointer |-> TRUE]
TypeCfg1 == [Name |-> NameCfg1, ImportPath |-> PathC, IsPointer |-> FALSE]
TypeString == [Name |-> NameString, ImportPath |-> <<>>, IsPointer |-> FALSE]

\* what parseStructProvider / parseFuncProvider fix for a declaration apart
\* from its dependencies: kind, provided type, failability, owning package
Decl(kind, type, canError, owner) ==
    [Kind |-> kind, ProvidedType |-> type, CanError |-> canError, ImportPath |-> owner]

\* declarations whose provided type lives in the declaring package
GraphDecls ==
    {Decl(ProviderKindStruct, TypeCfgA, FALSE, PathA),
     Decl(ProviderKindFunc, TypeCfgB, TRUE, PathB),
     Decl(ProviderKindFunc, TypeCfg1, FALSE, PathC)}

GraphTypes == <<TypeCfgA, TypeCfgB, TypeCfg1>>

\* declarations whose base variable names collide (cfg, cfg, cfg1), one of them
\* a function of package d that provides a type of another package (it returns
\* an imported type, or is bound to an imported interface)
ImportDecls ==
    {Decl(ProviderKindFunc, TypeCfgA, FALSE, PathA),
     Decl(ProviderKindFunc, TypeCfgB, FALSE, PathD),
     Decl(ProviderKindFunc, TypeCfg1, TRUE, PathA)}

\* the types they may depend on: two of the provided ones and a built-in
ImportTypes == <<TypeCfgB, TypeCfg1, TypeString>>

SeqsUpTo(S, n) == UNION {[1..k -> S] : k \in 0..n}

\* the ways to give n requesters dependency lists (of indices into a tuple of
\* t types), budget dependencies in all
RECURSIVE DepAlloc(_, _, _)
DepAlloc(t, n, budget) ==
    IF n = 0 THEN {<<>>}
    ELSE UNION {{<<d>> \o rest : rest \in DepAlloc(t, n - 1, budget - Len(d))} :
                    d \in SeqsUpTo(1..t, budget)}

\* parseStructProvider (one Dependency per exported field, with its name) and
\* parseFuncProvider (one per parameter, without)
MkProvider(decl, i, depTypes) ==
    [Name |-> IF decl.Kind = ProviderKindStruct THEN decl.ProvidedType.Name
              ELSE <<"N", "e", "w">> \o Itoa(i),
     Kind |-> decl.Kind,
     ProvidedType |-> decl.ProvidedType,
     Dependencies |-> [j \in 1..Len(depTypes) |->
                          [FieldName |-> IF decl.Kind = ProviderKindStruct
                                         THEN <<"D">> \o Itoa(j) ELSE <<>>,
                           Type |-> depTypes[j]]],
     CanError |-> decl.CanError,
     ImportPath |-> decl.ImportPath,
     VarName |-> toLowerCamel(decl.ProvidedType.Name)]

\* parseInvocation
MkInvocation(owner, i, depTypes) ==
    [Name |-> <<"R", "u", "n">> \o Itoa(i),
     Dependencies |-> depTypes,
     CanError |-> ((i + Len(depTypes)) % 2 = 0),
     ImportPath |-> owner]

\* types.ParseResult as run (main.go) assembles it
MkParseResult(ds, m, owner, alloc, types, out) ==
    LET deps(k) == [j \in 1..Len(alloc[k]) |-> types[alloc[k][j]]]
    IN  [Providers |-> [i \in 1..Len(ds) |-> MkProvider(ds[i], i, deps(i))],
         Invocations |-> [i \in 1..m |-> MkInvocation(owner, i, deps(Len(ds) + i))],
         OutputPackage |-> NameMain,
         OutputImportPath |-> out]

\* in is one of the inputs built from the declarations decls, with
\* dependencies among types
IsParseResult(in, decls, types, owners, outs, nMax, mMax, eMax) ==
    \E ds \in SeqsUpTo(decls, nMax), m \in 0..mMax :
        \E owner \in (IF m = 0 THEN {CHOOSE o \in owners : TRUE} ELSE owners),
           alloc \in DepAlloc(Len(types), Len(ds) + m, eMax), out \in outs :
            in = MkParseResult(ds, m, owner, alloc, types, out)

\* the inputs that stress the dependency graph
IsGraphInput(in) ==
    IsParseResult(in, GraphDecls, GraphTypes, {PathA}, {PathW},
                  MaxProviders, MaxInvocations, MaxEdges)

\* the inputs that stress the variable names and the namespaces
IsImportInput(in) ==
    IsParseResult(in, ImportDecls, ImportTypes, {PathC}, {PathA, PathW},
                  MaxNames, MaxInvocations, MaxEdges - 1)

\* declarations as the unit tests of collectImports build them: one in the
\* output package, one elsewhere, one with no package at all
CollectDecls ==
    {Decl(ProviderKindFunc, TypeCfgA, FALSE, PathA),
     Decl(ProviderKindFunc, TypeCfgB, FALSE, PathD),
     Decl(ProviderKindStruct, TypeString, FALSE, <<>>)}

CollectTypes == <<TypeCfgA, TypeCfgB, TypeString>>

\* the inputs of a direct call of collectImports: the empty path and the output
\* path occur as provider, dependency and invocation namespaces
IsCollectInput(in) ==
    IsParseResult(in, CollectDecls, CollectTypes, {PathA, <<>>}, {PathA, PathW},
                  MaxProviders, MaxInvocations, MaxEdges - 1)

UniqueKeys(providers) ==
    \A i, j \in 1..Len(providers) :
        Key(providers[i].ProvidedType) = Key(providers[j].ProvidedType) => i = j

AllPaths == {PathA, PathB, PathC, PathD, PathW}

\* the test suites' resolver: filepath.Base of the import path
BaseResolver == [path \in AllPaths |-> Base(path)]

ShortNames == {<<"h">>, <<"h", "1">>}

VarNamePool == {<<"c", "f", "g">>, <<"c", "f", "g", "1">>, <<"d", "b">>}

\* a provider as the unit tests of resolveVarNames build it: only VarName set
BareProvider(name) ==
    [Name |-> <<>>, Kind |-> ProviderKindStruct,
     ProvidedType |-> [Name |-> <<>>, ImportPath |-> <<>>, IsPointer |-> FALSE],
     Dependencies |-> <<>>, CanError |-> FALSE, ImportPath |-> <<>>, VarName |-> name]

BareParse(providers) ==
    [Providers |-> providers, Invocations |-> <<>>,
     OutputPackage |-> <<>>, OutputImportPath |-> <<>>]

----------------------------------------------------------------------------
(* The state machine: one call of Analyze, or of one of its helpers *)

InitAnalyze ==
    /\ call = "Analyze"
    /\ IsGraphInput(parsed) \/ IsImportInput(parsed)
    /\ paths = {}
    /\ resolver = BaseResolver

InitTopoSort ==
    /\ call = "topoSort"
    /\ IsGraphInput(parsed)
    /\ UniqueKeys(parsed.Providers)
    /\ paths = {}
    /\ resolver = BaseResolver

InitResolveVarNames ==
    /\ call = "resolveVarNames"
    /\ \E names \in SeqsUpTo(VarNamePool, MaxNames) :
           parsed = BareParse([i \in 1..Len(names) |-> BareProvider(names[i])])
    /\ paths = {}
    /\ resolver = BaseResolver

InitResolveImportAliases ==
    /\ call = "resolveImportAliases"
    /\ parsed = BareParse(<<>>)
    /\ paths \in SUBSET AllPaths
    /\ resolver \in [AllPaths -> ShortNames]

InitCollectImports ==
    /\ call = "collectImports"
    /\ IsCollectInput(parsed)
    /\ paths = {}
    /\ resolver = BaseResolver

\* a variant of Load that never finds the key
LoadMisses(m, key) == [value |-> <<>>, ok |-> FALSE]

\* xsync.Map.Load: the value and whether the key is present
Load(m, key) ==
    IF key \in DOMAIN m THEN [value |-> m[key], ok |-> TRUE]
    ELSE [value |-> <<>>, ok |-> FALSE]

\* a variant of LoadOrStore in which the last writer wins
LoadOrStoreOverwrites(m, key, value) ==
    [m |-> MapSet(m, key, value), actual |-> value, loaded |-> key \in DOMAIN m]

\* a variant of LoadOrStore that returns the given value also when the key
\* is present
LoadOrStoreReturnsGiven(m, key, value) ==
    [m |-> IF key \in DOMAIN m THEN m ELSE MapSet(m, key, value),
     actual |-> value, loaded |-> key \in DOMAIN m]

\* xsync.Map.LoadOrStore (sync.Map.LoadOrStore): atomic; the existing value
\* when the key is present, else the given value, which it stores
LoadOrStore(m, key, value) ==
    IF key \in DOMAIN m THEN [m |-> m, actual |-> m[key], loaded |-> TRUE]
    ELSE [m |-> MapSet(m, key, value), actual |-> value, loaded |-> FALSE]

\* calls of LoadOrStore on one map, as the tests of xsync.Map make them;
\* parsed holds the arguments of the calls to come, in order
InitLoadOrStore ==
    /\ call = "LoadOrStore"
    /\ \E n \in 1..(MaxCallers + 1) :
           parsed \in [1..n -> [key : {PathB, PathD}, value : ShortNames]]
    /\ paths = {}
    /\ resolver = BaseResolver

\* parser.parseFile, from declaration i on.  A declaration is a function, a
\* method or a struct type, with its annotations and, for a function, the
\* number of its results; of the provider and the invocation it appends only
\* the fields that do not come from resolveType are kept.
RECURSIVE parseFileAppendsFirst(_, _, _, _)
parseFileAppendsFirst(decls, i, importPath, res) ==
    IF i > Len(decls) THEN [result |-> res, err |-> Nil]
    ELSE LET d == decls[i]
             p == [Name |-> d.name,
                   Kind |-> IF d.node = "type" THEN ProviderKindStruct ELSE ProviderKindFunc,
                   CanError |-> (d.node = "func" /\ d.results = 2),
                   ImportPath |-> importPath]
             inv == [Name |-> d.name, ImportPath |-> importPath]
             appended == [Providers |-> IF d.provide THEN Append(res.Providers, p)
                                        ELSE res.Providers,
                          Invocations |-> IF d.invoke THEN Append(res.Invocations, inv)
                                          ELSE res.Invocations]
         IN  IF d.node = "method" \/ (d.node = "type" /\ ~d.provide)
             THEN parseFileAppendsFirst(decls, i + 1, importPath, res)
             ELSE IF d.node = "type"
             THEN parseFileAppendsFirst(decls, i + 1, importPath,
                                        [res EXCEPT !.Providers = Append(@, p)])
             ELSE IF d.provide /\ d.results = 0
             THEN [result |-> res, err |-> [kind |-> "noresult", name |-> d.name]]
             ELSE IF d.provide /\ d.invoke
             THEN [result |-> appended, err |-> [kind |-> "conflict", name |-> d.name]]
             ELSE parseFileAppendsFirst(decls, i + 1, importPath, appended)

RECURSIVE parseFile(_, _, _, _)
parseFile(decls, i, importPath, res) ==
    IF i > Len(decls) THEN [result |-> res, err |-> Nil]
    ELSE LET d == decls[i]
             p == [Name |-> d.name,
                   Kind |-> IF d.node = "type" THEN ProviderKindStruct ELSE ProviderKindFunc,
                   CanError |-> (d.node = "func" /\ d.results = 2),
                   ImportPath |-> importPath]
             inv == [Name |-> d.name, ImportPath |-> importPath]
         IN  IF d.node = "method" \/ (d.node = "type" /\ ~d.provide)
             THEN parseFile(decls, i + 1, importPath, res)
             ELSE IF d.node = "type"
             THEN parseFile(decls, i + 1, importPath,
                            [res EXCEPT !.Providers = Append(@, p)])
             ELSE IF d.provide /\ d.invoke
             THEN [result |-> res, err |-> [kind |-> "conflict", name |-> d.name]]
             ELSE IF d.provide /\ d.results = 0
             THEN [result |-> res, err |-> [kind |-> "noresult", name |-> d.name]]
             ELSE parseFile(decls, i + 1, importPath,
                            [Providers |-> IF d.provide THEN Append(res.Providers, p)
                                           ELSE res.Providers,
                             Invocations |-> IF d.invoke
                                             THEN Append(res.Invocations, inv)
                                             ELSE res.Invocations])

\* parser.Parse: filepath.WalkDir hands the files, from the k-th on, to
\* parseFile and stops at the first error; the result so far is returned
\* with it
RECURSIVE Parse(_, _, _, _)
Parse(files, k, basePath, res) ==
    IF k > Len(files) THEN [result |-> res, err |-> Nil]
    ELSE LET out == parseFile(files[k], 1, basePath, res)
         IN  IF out.err # Nil THEN out
             ELSE Parse(files, k + 1, basePath, out.result)

FileDecl(node, name, provide, invoke, results) ==
    [node |-> node, name |-> <<name>>, provide |-> provide, invoke |-> invoke,
     results |-> results]

\* declarations a file may hold: a provider, an invocation, a function with
\* both annotations, a method and a struct type with both, a provider
\* without res
FileDecls ==
    {FileDecl("func", "F", TRUE, FALSE, 2), FileDecl("func", "G", FALSE, TRUE, 0),
     FileDecl("func", "B", TRUE, TRUE, 1), FileDecl("method", "M", TRUE, TRUE, 1),
     FileDecl("type", "T", TRUE, TRUE, 0), FileDecl("func", "X", TRUE, FALSE, 0)}

\* a directory with one file, or with a second file of one declaration;
\* parsed holds the files in the order of the walk
InitParse ==
    /\ call = "Parse"
    /\ \E first \in SeqsUpTo(FileDecls, MaxDecls), second \in SeqsUpTo(FileDecls, 1) :
           parsed = IF second = <<>> THEN <<first>> ELSE <<first, second>>
    /\ paths = {}
    /\ resolver = BaseResolver

\* a Result as the tests of Generate build it by hand: two functions, then a
\* struct that depends on what they provide, each dependency with or without
\* a field name
IsGenerateInput(r) ==
    \E ds \in SeqsUpTo((1..2) \X BOOLEAN, MaxEdges) :
        LET types == <<TypeCfgB, TypeCfg1>>
            deps == [j \in 1..Len(ds) |->
                        [FieldName |-> IF ds[j][2] THEN <<"D">> \o Itoa(j) ELSE <<>>,
                         Type |-> types[ds[j][1]]]]
            providers ==
                resolveVarNames(
                    <<MkProvider(Decl(ProviderKindFunc, TypeCfgB, TRUE, PathB), 1, <<>>),
                      MkProvider(Decl(ProviderKindFunc, TypeCfg1, FALSE, PathC), 2, <<>>),
                      [MkProvider(Decl(ProviderKindStruct, TypeCfgA, FALSE, PathA), 3, <<>>)
                          EXCEPT !.Dependencies = deps]>>)
        IN  \E imports \in collectImports(providers, <<>>, PathW, BaseResolver) :
                r = [Providers |-> providers,
                     Invocations |-> <<>>,
                     PackageName |-> NameMain,
                     OutputImportPath |-> PathW,
                     Imports |-> imports]

\* Generate on a Result built by hand; parsed holds the Result
InitGenerate ==
    /\ call = "Generate"
    /\ IsGenerateInput(parsed)
    /\ paths = {}
    /\ resolver = BaseResolver

\* no traversal of topoSort is followed step by step
TopoIdle == topo = Nil

\* the tool is not running
RunIdle == scanDirs = <<>> /\ code = Nil /\ file = Nil

\* no generated entry point is running
AppIdle == ip = 0 /\ ran = <<>> /\ returned = Nil

\* no call of Resolver.ResolveName is running
ResolverIdle == cache = EmptyMap /\ callers = <<>>

Init ==
    /\ pc = "call"
    /\ result = Nil
    /\ err = Nil
    /\ ret = Nil
    /\ RunIdle /\ AppIdle /\ ResolverIdle /\ TopoIdle
    /\ \/ InitAnalyze
       \/ InitTopoSort
       \/ InitResolveVarNames
       \/ InitResolveImportAliases
       \/ InitCollectImports
       \/ InitGenerate
       \/ InitParse
       \/ InitLoadOrStore

CallAnalyze ==
    /\ pc = "call"
    /\ call = "Analyze"
    /\ \E out \in Analyze(parsed, resolver) :
           /\ result' = out.result
           /\ err' = out.err
           /\ parsed' = [parsed EXCEPT !.Providers = InputAfterAnalyze(parsed, out)]
    /\ pc' = "return"
    /\ UNCHANGED <<call, topo, paths, resolver, ret>>
    /\ UNCHANGED <<runVars, appVars, resolverVars>>

CallTopoSort ==
    /\ pc = "call"
    /\ call = "topoSort"
    /\ LET out == topoSort(parsed.Providers, parsed.Invocations,
                           buildIndex(parsed.Providers).byType)
       IN  /\ ret' = out.ordered
           /\ err' = out.err
    /\ pc' = "return"
    /\ UNCHANGED <<call, topo, parsed, paths, resolver, result>>
    /\ UNCHANGED <<runVars, appVars, resolverVars>>

CallResolveVarNames ==
    /\ pc = "call"
    /\ call = "resolveVarNames"
    /\ ret' = resolveVarNames(parsed.Providers)
    /\ pc' = "return"
    /\ UNCHANGED <<call, topo, parsed, paths, resolver, result, err>>
    /\ UNCHANGED <<runVars, appVars, resolverVars>>

CallResolveImportAliases ==
    /\ pc = "call"
    /\ call = "resolveImportAliases"
    /\ ret' \in resolveImportAliases(paths, resolver)
    /\ pc' = "return"
    /\ UNCHANGED <<call, topo, parsed, paths, resolver, result, err>>
    /\ UNCHANGED <<runVars, appVars, resolverVars>>

CallCollectImports ==
    /\ pc = "call"
    /\ call = "collectImports"
    /\ ret' \in collectImports(parsed.Providers, parsed.Invocations,
                                parsed.OutputImportPath, resolver)
    /\ pc' = "return"
    /\ UNCHANGED <<call, topo, parsed, paths, resolver, result, err>>
    /\ UNCHANGED <<runVars, appVars, resolverVars>>

CallGenerate ==
    /\ pc = "call"
    /\ call = "Generate"
    /\ ret' \in Generate(parsed, resolver)
    /\ pc' = "return"
    /\ UNCHANGED <<call, topo, parsed, paths, resolver, result, err>>
    /\ UNCHANGED <<runVars, appVars, resolverVars>>

CallParse ==
    /\ pc = "call"
    /\ call = "Parse"
    /\ LET out == Parse(parsed, 1, PathA, [Providers |-> <<>>, Invocations |-> <<>>])
       IN  /\ result' = out.result
           /\ err' = out.err
    /\ pc' = "return"
    /\ UNCHANGED <<call, topo, parsed, paths, resolver, ret>>
    /\ UNCHANGED <<runVars, appVars, resolverVars>>

\* the next call of LoadOrStore; callers keeps the calls made, each with
\* what it returned
CallLoadOrStore ==
    /\ pc = "call"
    /\ call = "LoadOrStore"
    /\ LET args == parsed[Len(callers) + 1]
           out == LoadOrStore(cache, args.key, args.value)
       IN  /\ cache' = out.m
           /\ callers' = Append(callers, [key |-> args.key, value |-> args.value,
                                          actual |-> out.actual, loaded |-> out.loaded])
    /\ pc' = IF Len(callers) + 1 = Len(parsed) THEN "return" ELSE "call"
    /\ UNCHANGED <<call, topo, parsed, paths, resolver, result, err, ret>>
    /\ UNCHANGED <<runVars, appVars>>

Next ==
    \/ CallAnalyze
    \/ CallTopoSort
    \/ CallResolveVarNames
    \/ CallResolveImportAliases
    \/ CallCollectImports
    \/ CallGenerate
    \/ CallParse
    \/ CallLoadOrStore

Spec == Init /\ [][Next]_vars

----------------------------------------------------------------------------
(* One run of the tool: run (main.go) *)

\* the part of a sequence that the r-th of k roots holds
Chunk(seq, r, k) ==
    SubSeq(seq, ((r - 1) * Len(seq)) \div k + 1, (r * Len(seq)) \div k)

\* what parser.Parse returns for each of k roots that together hold in
Split(in, k) ==
    [r \in 1..k |-> [Providers |-> Chunk(in.Providers, r, k),
                     Invocations |-> Chunk(in.Invocations, r, k)]]

\* dirs is what k roots hold that together hold the declarations of one of
\* the inputs that stress the dependency graph, with one dependency less and
\* one invocation more
IsScanOf(dirs, k) ==
    \E ds \in SeqsUpTo(GraphDecls, MaxProviders), m \in 0..(MaxInvocations + 1) :
        \E alloc \in DepAlloc(Len(GraphTypes), Len(ds) + m, MaxEdges - 1) :
            dirs = Split(MkParseResult(ds, m, PathA, alloc, GraphTypes, PathW), k)

\* dirs is one root that holds one provider more, and at most one invocation
IsLargeScan(dirs) ==
    \E ds \in [1..(MaxProviders + 1) -> GraphDecls], m \in 0..1 :
        \E alloc \in DepAlloc(Len(GraphTypes), Len(ds) + m, MaxEdges - 1) :
            dirs = Split(MkParseResult(ds, m, PathA, alloc, GraphTypes, PathW), 1)

RunInit ==
    /\ call = "run"
    /\ pc = "GetOutputInfo"
    /\ parsed = Nil
    /\ \/ \E k \in 1..MaxRoots : IsScanOf(scanDirs, k)
       \/ IsLargeScan(scanDirs)
    /\ paths = {}
    /\ resolver = BaseResolver
    /\ result = Nil
    /\ err = Nil
    /\ ret = Nil
    /\ code = Nil
    /\ file = Nil
    /\ AppIdle /\ ResolverIdle /\ TopoIdle

\* lines 53-71: the output directory resolves to a package and an import path
GetOutputInfo ==
    /\ call = "run"
    /\ pc = "GetOutputInfo"
    /\ parsed' = [Providers |-> <<>>, Invocations |-> <<>>,
                  OutputPackage |-> NameMain, OutputImportPath |-> PathW]
    /\ pc' = "Scan"
    /\ UNCHANGED <<call, topo, paths, resolver, result, err, ret, runVars, appVars, resolverVars>>

\* lines 54-56 and 63-65: filepath.Abs or parser.GetOutputInfo fails
GetOutputInfoFails ==
    /\ call = "run"
    /\ pc = "GetOutputInfo"
    /\ err' = [kind |-> "output"]
    /\ pc' = "failed"
    /\ UNCHANGED <<call, topo, parsed, paths, resolver, result, ret, runVars, appVars, resolverVars>>

\* lines 73-90, one iteration: the root's declarations are appended
ScanRoot ==
    /\ call = "run"
    /\ pc = "Scan"
    /\ scanDirs # <<>>
    /\ parsed' = [parsed EXCEPT !.Providers = @ \o Head(scanDirs).Providers,
                                !.Invocations = @ \o Head(scanDirs).Invocations]
    /\ scanDirs' = Tail(scanDirs)
    /\ UNCHANGED <<call, topo, paths, resolver, pc, result, err, ret, code, file,
                   appVars, resolverVars>>

\* lines 75-77 and 84-86: filepath.Abs or parser.Parse fails for the root
ScanRootFails ==
    /\ call = "run"
    /\ pc = "Scan"
    /\ scanDirs # <<>>
    /\ err' = [kind |-> "parse"]
    /\ pc' = "failed"
    /\ UNCHANGED <<call, topo, parsed, paths, resolver, result, ret, runVars, appVars, resolverVars>>

\* a variant without the check for a run that found no annotation
CheckAnnotationsSkipped ==
    /\ call = "run"
    /\ pc = "Scan"
    /\ scanDirs = <<>>
    /\ pc' = "Analyze"
    /\ UNCHANGED <<call, topo, parsed, paths, resolver, result, err, ret, runVars, appVars,
                   resolverVars>>

\* lines 92-94: after the last root, a run without any annotation is an error
CheckAnnotations ==
    /\ call = "run"
    /\ pc = "Scan"
    /\ scanDirs = <<>>
    /\ IF Len(parsed.Providers) = 0 /\ Len(parsed.Invocations) = 0
       THEN err' = [kind |-> "none"] /\ pc' = "failed"
       ELSE err' = err /\ pc' = "Analyze"
    /\ UNCHANGED <<call, topo, parsed, paths, resolver, result, ret, runVars, appVars, resolverVars>>

\* lines 107-110
RunAnalyze ==
    /\ call = "run"
    /\ pc = "Analyze"
    /\ \E out \in Analyze(parsed, resolver) :
           /\ result' = out.result
           /\ err' = out.err
           /\ pc' = IF out.err # Nil THEN "failed" ELSE "Generate"
           /\ parsed' = [parsed EXCEPT !.Providers = InputAfterAnalyze(parsed, out)]
    /\ UNCHANGED <<call, topo, paths, resolver, ret, runVars, appVars, resolverVars>>

\* lines 119-122, Generate succeeds
RunGenerate ==
    /\ call = "run"
    /\ pc = "Generate"
    /\ code' \in Generate(result, resolver)
    /\ pc' = "WriteFile"
    /\ UNCHANGED <<call, topo, parsed, paths, resolver, result, err, ret, scanDirs, file,
                   appVars, resolverVars>>

\* lines 119-122, Generate fails: the text it assembled does not format
RunGenerateFails ==
    /\ call = "run"
    /\ pc = "Generate"
    /\ err' = [kind |-> "generate"]
    /\ pc' = "failed"
    /\ UNCHANGED <<call, topo, parsed, paths, resolver, result, ret, runVars, appVars, resolverVars>>

\* lines 124-130, os.WriteFile succeeds
WriteFile ==
    /\ call = "run"
    /\ pc = "WriteFile"
    /\ file' = [kind |-> "file", content |-> code]
    /\ pc' = "done"
    /\ UNCHANGED <<call, topo, parsed, paths, resolver, result, err, ret, scanDirs, code,
                   appVars, resolverVars>>

\* lines 125-127, os.WriteFile fails: it may have truncated the file before
WriteFileFails ==
    /\ call = "run"
    /\ pc = "WriteFile"
    /\ file' \in {Nil, [kind |-> "truncated"]}
    /\ err' = [kind |-> "write"]
    /\ pc' = "failed"
    /\ UNCHANGED <<call, topo, parsed, paths, resolver, result, ret, scanDirs, code,
                   appVars, resolverVars>>

RunNext ==
    \/ GetOutputInfo
    \/ GetOutputInfoFails
    \/ ScanRoot
    \/ ScanRootFails
    \/ CheckAnnotations
    \/ RunAnalyze
    \/ RunGenerate
    \/ RunGenerateFails
    \/ WriteFile
    \/ WriteFileFails

RunSpec == RunInit /\ [][RunNext]_vars

----------------------------------------------------------------------------
(* The generated entry point, run statement by statement.  ip is the        *)
(* statement about to run, ran the calls and constructions made so far,     *)
(* each with whether it returned an error, returned what the entry point    *)
(* returned.                                                                *)

\* in is one of the inputs that the roots of a scan hold together
IsScanInput(in) ==
    \E ds \in SeqsUpTo(GraphDecls, MaxProviders), m \in 0..(MaxInvocations + 1) :
        \E alloc \in DepAlloc(Len(GraphTypes), Len(ds) + m, MaxEdges - 1) :
            in = MkParseResult(ds, m, PathA, alloc, GraphTypes, PathW)

\* the text compiles: no two fields of the aggregate and no two variables of
\* the entry point have one name
Compiles(text) ==
    /\ \A i, j \in 1..Len(text.fields) :
           text.fields[i].name = text.fields[j].name => i = j
    /\ \A i, j \in 1..Len(text.body) :
           (/\ text.body[i].op \in {"struct", "call"}
            /\ text.body[j].op \in {"struct", "call"}
            /\ text.body[i].var = text.body[j].var) => i = j

AppInit ==
    /\ call = "app"
    /\ pc = "call"
    /\ IsScanInput(parsed)
    /\ paths = {}
    /\ resolver = BaseResolver
    /\ err = Nil
    /\ ret = Nil
    /\ \E out \in Analyze(parsed, resolver) :
           /\ out.err = Nil
           /\ result = out.result
    /\ code \in Generate(result, resolver)
    /\ Compiles(code)
    /\ scanDirs = <<>>
    /\ file = Nil
    /\ ip = 1
    /\ ran = <<>>
    /\ returned = Nil
    /\ ResolverIdle /\ TopoIdle

\* the statement about to run
AtOp(ops) == call = "app" /\ ip \in 1..Len(code.body) /\ code.body[ip].op \in ops

\* the entry point's return of the zero aggregate and the error of ran[k]
ReturnError(k) == [app |-> Nil, err |-> [at |-> ran[k].at]]

\* the construction of a struct-kind provider: it cannot fail
AppConstruct ==
    /\ AtOp({"struct"})
    /\ ran' = Append(ran, [at |-> ip, failed |-> FALSE])
    /\ ip' = ip + 1
    /\ UNCHANGED <<call, topo, parsed, paths, resolver, pc, result, err, ret, runVars,
                   returned, resolverVars>>

\* the call of a function-kind provider: one that can fail binds its error
AppCall ==
    /\ AtOp({"call"})
    /\ \E failed \in (IF code.body[ip].failable THEN BOOLEAN ELSE {FALSE}) :
           ran' = Append(ran, [at |-> ip, failed |-> failed])
    /\ ip' = ip + 1
    /\ UNCHANGED <<call, topo, parsed, paths, resolver, pc, result, err, ret, runVars,
                   returned, resolverVars>>

\* a variant of the guard that goes on whatever the error
AppGuardIgnoresError ==
    /\ AtOp({"guard"})
    /\ ip' = ip + 1
    /\ UNCHANGED <<call, topo, parsed, paths, resolver, pc, result, err, ret, runVars,
                   ran, returned, resolverVars>>

\* the guard after a call: it returns nil and the error that the call bound
AppGuard ==
    /\ AtOp({"guard"})
    /\ IF ran[Len(ran)].failed
       THEN returned' = ReturnError(Len(ran)) /\ ip' = 0
       ELSE returned' = returned /\ ip' = ip + 1
    /\ UNCHANGED <<call, topo, parsed, paths, resolver, pc, result, err, ret, runVars,
                   ran, resolverVars>>

\* the call of an invocation: one that can fail is wrapped in the guard
AppInvoke ==
    /\ AtOp({"invoke"})
    /\ \E failed \in (IF code.body[ip].failable THEN BOOLEAN ELSE {FALSE}) :
           /\ ran' = Append(ran, [at |-> ip, failed |-> failed])
           /\ IF failed
              THEN returned' = [app |-> Nil, err |-> [at |-> ip]] /\ ip' = 0
              ELSE returned' = returned /\ ip' = ip + 1
    /\ UNCHANGED <<call, topo, parsed, paths, resolver, pc, result, err, ret, runVars,
                   resolverVars>>

\* the statement that built the variable name, if it ran
BuiltAt(name) ==
    {ran[k].at : k \in {x \in 1..Len(ran) : code.body[ran[x].at].var = name}}

\* the final return: the aggregate, each field with what its variable holds
AppReturn ==
    /\ AtOp({"return"})
    /\ returned' = [app |-> [j \in 1..Len(code.body[ip].fields) |->
                                [name |-> code.body[ip].fields[j].name,
                                 built |-> BuiltAt(code.body[ip].fields[j].value)]],
                    err |-> Nil]
    /\ ip' = 0
    /\ UNCHANGED <<call, topo, parsed, paths, resolver, pc, result, err, ret, runVars,
                   ran, resolverVars>>

AppNext ==
    \/ AppConstruct
    \/ AppCall
    \/ AppGuard
    \/ AppInvoke
    \/ AppReturn

AppSpec == AppInit /\ [][AppNext]_vars

----------------------------------------------------------------------------
(* resolver.Resolver: concurrent calls of ResolveName on one Resolver.      *)
(* cache is the Resolver's map; callers[i] is one call: where it stands,    *)
(* its argument, the name its own computation gave, and what it returned.   *)

IsDigit(c) == c \in {"0", "1", "2", "3", "4", "5", "6", "7", "8", "9"}

\* filepath.Dir for a clean path: the part before the last "/"
Dir(p) ==
    IF \E i \in 1..Len(p) : p[i] = "/"
    THEN LET i == CHOOSE j \in 1..Len(p) : p[j] = "/" /\ \A k \in (j+1)..Len(p) : p[k] # "/"
         IN  IF i = 1 THEN <<"/">> ELSE SubSeq(p, 1, i - 1)
    ELSE <<".">>

isVersionSuffix(s) ==
    /\ Len(s) >= 2
    /\ s[1] = "v"
    /\ \A i \in 2..Len(s) : IsDigit(s[i])

versionSuffix(s) ==
    LET at == {i \in 1..(Len(s) - 1) : s[i] = "." /\ s[i + 1] = "v"}
    IN  IF at = {} THEN <<>>
        ELSE LET idx == CHOOSE i \in at : \A j \in at : j <= i
                 suffix == SubSeq(s, idx + 1, Len(s))
             IN  IF ~isVersionSuffix(suffix) THEN <<>> ELSE <<".">> \o suffix

fallbackName(importPath) ==
    LET base == Base(importPath)
        cut == versionSuffix(base)
    IN  IF isVersionSuffix(base) THEN Base(Dir(importPath))
        ELSE SubSeq(base, 1, Len(base) - Len(cut))

\* the names `go list` may print for a package
GoListNames == ShortNames

\* resolve: what `go list` prints, which is not a function of the path alone
\* (the packages on disk may change between two runs), or the fallback name
\* when it fails
resolve(path) == GoListNames \cup {fallbackName(path)}

PathV2 == <<"a", "/", "v", "2">>

\* the paths that concurrent callers ask for
ResolverPaths == {PathB, PathV2}

Caller(path) == [pc |-> "Load", path |-> path, name |-> <<>>, ret |-> Nil]

ResolverInit ==
    /\ call = "ResolveName"
    /\ pc = "call"
    /\ parsed = Nil
    /\ paths = {}
    /\ resolver = BaseResolver
    /\ result = Nil
    /\ err = Nil
    /\ ret = Nil
    /\ RunIdle /\ AppIdle /\ TopoIdle
    /\ cache = EmptyMap
    /\ \E n \in 1..MaxCallers : \E ps \in [1..n -> ResolverPaths] :
           callers = [i \in 1..n |-> Caller(ps[i])]

\* lines 743-745: a cached name is returned at once
ResolveNameLoad(i) ==
    /\ call = "ResolveName"
    /\ callers[i].pc = "Load"
    /\ LET found == Load(cache, callers[i].path)
       IN  callers' = [callers EXCEPT ![i] =
                          IF found.ok
                          THEN [@ EXCEPT !.pc = "done", !.ret = found.value]
                          ELSE [@ EXCEPT !.pc = "resolve"]]
    /\ UNCHANGED <<cache, call, topo, parsed, paths, resolver, pc, result, err, ret,
                   runVars, appVars>>

\* line 747: the computation, outside any lock
ResolveNameResolve(i) ==
    /\ call = "ResolveName"
    /\ callers[i].pc = "resolve"
    /\ \E name \in resolve(callers[i].path) :
           callers' = [callers EXCEPT ![i] = [@ EXCEPT !.pc = "LoadOrStore",
                                                      !.name = name]]
    /\ UNCHANGED <<cache, call, topo, parsed, paths, resolver, pc, result, err, ret,
                   runVars, appVars>>

\* lines 748-749: the name is stored unless one is there, and the stored one
\* is returned
ResolveNameLoadOrStore(i) ==
    /\ call = "ResolveName"
    /\ callers[i].pc = "LoadOrStore"
    /\ LET out == LoadOrStore(cache, callers[i].path, callers[i].name)
       IN  /\ cache' = out.m
           /\ callers' = [callers EXCEPT ![i] = [@ EXCEPT !.pc = "done",
                                                          !.ret = out.actual]]
    /\ UNCHANGED <<call, topo, parsed, paths, resolver, pc, result, err, ret, runVars, appVars>>

ResolverNext ==
    \/ \E i \in 1..Len(callers) : ResolveNameLoad(i)
    \/ \E i \in 1..Len(callers) : ResolveNameResolve(i)
    \/ \E i \in 1..Len(callers) : ResolveNameLoadOrStore(i)

ResolverSpec == ResolverInit /\ [][ResolverNext]_vars

----------------------------------------------------------------------------
(* Analyze with topoSort step by step.  topo holds topoSort's locals        *)
(* visited, inStack and result, the error a call of visit returned, the     *)
(* pending calls of visit                                                   *)
(* (frames: the provider, the index of its next dependency and the path),   *)
(* the roots still to visit, and entered: the keys whose dependencies a     *)
(* call of visit went into, in order (kept for the properties only).        *)

\* the arguments of the calls visit(p, nil) that the two loops of lines
\* 122-136 make, in order
RootsOf(providers, invocations, byType) ==
    LET RECURSIVE FromInvocations(_)
        FromInvocations(i) ==
            IF i > Len(invocations) THEN <<>>
            ELSE [j \in 1..Len(SelectSeq(InvocationDepKeys(invocations[i]),
                                         LAMBDA k : k \in DOMAIN byType)) |->
                     byType[SelectSeq(InvocationDepKeys(invocations[i]),
                                      LAMBDA k : k \in DOMAIN byType)[j]]]
                 \o FromInvocations(i + 1)
    IN  FromInvocations(1) \o providers

\* a variant of the entry of visit without the two checks
EnterUnchecked(t, p, path) ==
    [t EXCEPT !.inStack = @ \cup {Key(p.ProvidedType)},
              !.frames = Append(@, [p |-> p, j |-> 1,
                                    path |-> path \o <<Key(p.ProvidedType)>>]),
              !.entered = Append(@, Key(p.ProvidedType))]

\* the call visit(p, path) up to its loop, lines 95-106
Enter(t, p, path) ==
    LET key == Key(p.ProvidedType)
    IN  IF key \in t.inStack THEN [t EXCEPT !.err = CycleError(path \o <<key>>)]
        ELSE IF key \in t.visited THEN t
        ELSE [t EXCEPT !.inStack = @ \cup {key},
                       !.frames = Append(@, [p |-> p, j |-> 1, path |-> path \o <<key>>]),
                       !.entered = Append(@, key)]

\* a variant of the end of visit that leaves the mark of the path
LeaveKeepsMark(t) ==
    LET top == t.frames[Len(t.frames)]
    IN  [t EXCEPT !.visited = @ \cup {Key(top.p.ProvidedType)},
                  !.result = Append(@, top.p),
                  !.frames = SubSeq(@, 1, Len(@) - 1)]

\* the end of the innermost call of visit, lines 116-119
Leave(t) ==
    LET top == t.frames[Len(t.frames)]
    IN  [t EXCEPT !.inStack = @ \ {Key(top.p.ProvidedType)},
                  !.visited = @ \cup {Key(top.p.ProvidedType)},
                  !.result = Append(@, top.p),
                  !.frames = SubSeq(@, 1, Len(@) - 1)]

\* Analyze is called with a scan of up to one provider more than the other
\* specifications give it and at most one invocation; the largest scans have
\* no declaration twice
TraverseInit ==
    /\ call = "Analyze"
    /\ pc = "index"
    /\ \E ds \in SeqsUpTo(GraphDecls, MaxProviders + 1), m \in 0..1 :
           /\ Len(ds) > MaxProviders => \A i, j \in 1..Len(ds) : i # j => ds[i] # ds[j]
           /\ \E alloc \in DepAlloc(Len(GraphTypes), Len(ds) + m, MaxEdges) :
                  parsed = MkParseResult(ds, m, PathA, alloc, GraphTypes, PathW)
    /\ paths = {}
    /\ resolver = BaseResolver
    /\ result = Nil
    /\ err = Nil
    /\ ret = Nil
    /\ RunIdle /\ AppIdle /\ ResolverIdle /\ TopoIdle

Traversing == call = "Analyze" /\ pc = "visit"

\* Analyze, lines 20-32 and topoSort, lines 90-93: the index and the check of
\* the dependencies, either of which returns its error, then the call of
\* topoSort
AnalyzeIndex ==
    /\ call = "Analyze" /\ pc = "index"
    /\ LET index == buildIndex(parsed.Providers)
           missing == validateDeps(parsed.Providers, parsed.Invocations, index.byType)
           failed == IF index.err # Nil THEN index.err ELSE missing
       IN  IF failed # Nil
           THEN /\ err' = failed
                /\ pc' = "return"
                /\ topo' = topo
           ELSE /\ err' = err
                /\ pc' = "visit"
                /\ topo' = [visited |-> {}, inStack |-> {}, result |-> <<>>,
                            err |-> Nil, frames |-> <<>>, entered |-> <<>>,
                            roots |-> RootsOf(parsed.Providers, parsed.Invocations,
                                              index.byType)]
    /\ UNCHANGED <<call, parsed, paths, resolver, result, ret,
                   runVars, appVars, resolverVars>>

\* lines 122-136: the next call visit(p, nil) of the two loops
TraverseRoot ==
    /\ Traversing
    /\ topo.frames = <<>> /\ topo.err = Nil /\ topo.roots # <<>>
    /\ topo' = Enter([topo EXCEPT !.roots = Tail(@)], Head(topo.roots), <<>>)
    /\ UNCHANGED <<call, parsed, paths, resolver, pc, result, err, ret,
                   runVars, appVars, resolverVars>>

\* lines 108-114: the next dependency of the innermost call; one that has a
\* provider is visited.  The calls of visit never nest deeper than there are
\* providers, plus one.
TraverseDep ==
    /\ Traversing
    /\ topo.frames # <<>> /\ topo.err = Nil
    /\ Len(topo.frames) <= Len(parsed.Providers) + 1
    /\ LET n == Len(topo.frames)
           top == topo.frames[n]
           byType == buildIndex(parsed.Providers).byType
       IN  /\ top.j <= Len(top.p.Dependencies)
           /\ LET k == Key(top.p.Dependencies[top.j].Type)
                  next == [topo EXCEPT !.frames[n].j = @ + 1]
              IN  topo' = IF k \in DOMAIN byType THEN Enter(next, byType[k], top.path)
                          ELSE next
    /\ UNCHANGED <<call, parsed, paths, resolver, pc, result, err, ret,
                   runVars, appVars, resolverVars>>

\* lines 116-119: the loop of the innermost call is over
TraverseLeave ==
    /\ Traversing
    /\ topo.frames # <<>> /\ topo.err = Nil
    /\ LET top == topo.frames[Len(topo.frames)]
       IN  top.j > Len(top.p.Dependencies)
    /\ topo' = Leave(topo)
    /\ UNCHANGED <<call, parsed, paths, resolver, pc, result, err, ret,
                   runVars, appVars, resolverVars>>

\* lines 110-112: a call of visit returned an error; its caller returns it
TraverseUnwind ==
    /\ Traversing
    /\ topo.frames # <<>> /\ topo.err # Nil
    /\ topo' = [topo EXCEPT !.frames = SubSeq(@, 1, Len(@) - 1)]
    /\ UNCHANGED <<call, parsed, paths, resolver, pc, result, err, ret,
                   runVars, appVars, resolverVars>>

\* topoSort returns (lines 125-127, 133-135, 137) and Analyze returns its
\* error or names the providers and collects the imports (lines 32-46)
TraverseReturn ==
    /\ Traversing
    /\ topo.frames = <<>>
    /\ topo.err # Nil \/ topo.roots = <<>>
    /\ err' = topo.err
    /\ LET Finish(ordered) ==
               {[Providers |-> ordered,
                 Invocations |-> parsed.Invocations,
                 PackageName |-> parsed.OutputPackage,
                 OutputImportPath |-> parsed.OutputImportPath,
                 Imports |-> imports] :
                    imports \in collectImports(ordered, parsed.Invocations,
                                               parsed.OutputImportPath, resolver)}
       IN  result' \in IF topo.err # Nil THEN {Nil}
                       ELSE Bind(Finish, resolveVarNames(topo.result))
    /\ pc' = "return"
    /\ UNCHANGED <<call, parsed, paths, resolver, ret, topo,
                   runVars, appVars, resolverVars>>

TraverseNext ==
    \/ AnalyzeIndex
    \/ TraverseRoot
    \/ TraverseDep
    \/ TraverseLeave
    \/ TraverseUnwind
    \/ TraverseReturn

TraverseSpec == TraverseInit /\ [][TraverseNext]_vars

\* Analyze runs on one goroutine, which the Go runtime keeps running
TraverseFairSpec == TraverseSpec /\ WF_vars(TraverseNext)

----------------------------------------------------------------------------
(* Properties *)

Keys(providers) == {Key(providers[i].ProvidedType) : i \in 1..Len(providers)}

\* provider q provides a dependency of provider i
DependsOn(providers, i, q) ==
    \E j \in 1..Len(providers[i].Dependencies) :
        Key(providers[i].Dependencies[j].Type) = Key(providers[q].ProvidedType)

AnalyzeReturned == call = "Analyze" /\ pc = "return"

AnalyzeSucceeded == AnalyzeReturned /\ err = Nil

TopoSortReturned == call = "topoSort" /\ pc = "return"

\* the provider order that a successful call returned
ReturnedOrder == IF call = "Analyze" THEN result.Providers ELSE ret

\* every dependency of every provider is provided, and provided strictly earlier
TopologicallyValid(order, providers) ==
    \A i \in 1..Len(order) : \A j \in 1..Len(order[i].Dependencies) :
        \A q \in 1..Len(providers) :
            Key(providers[q].ProvidedType) = Key(order[i].Dependencies[j].Type)
                => \E e \in 1..(i - 1) :
                       /\ order[e].Name = providers[q].Name
                       /\ order[e].ProvidedType = providers[q].ProvidedType

\* C1: whenever Analyze, or topoSort on providers with unique keys, succeeds,
\* every provider of a dependency of the provider at index i of the returned
\* order is at an index strictly less than i.
C1_TopologicalOrder ==
    (AnalyzeSucceeded \/ (TopoSortReturned /\ err = Nil))
        => TopologicallyValid(ReturnedOrder, parsed.Providers)

\* a success that reorders: the provider declared first depends on the one
\* declared second, which an invocation depends on too
C1_Witness ==
    /\ AnalyzeSucceeded
    /\ Len(result.Providers) = 2
    /\ Len(parsed.Invocations) = 1
    /\ parsed.Invocations[1].Dependencies = <<parsed.Providers[2].ProvidedType>>
    /\ DependsOn(parsed.Providers, 1, 2)
    /\ result.Providers[1].ProvidedType = parsed.Providers[2].ProvidedType
    /\ result.Providers[2].ProvidedType = parsed.Providers[1].ProvidedType

HasDuplicate(providers) ==
    \E i, j \in 1..Len(providers) :
        i < j /\ Key(providers[i].ProvidedType) = Key(providers[j].ProvidedType)

\* C2: if two providers of the input have the same provided-type key, Analyze
\* returns a duplicate-provider error that names the shared key and the names
\* of two providers declared with it, whatever the declaration order and
\* whatever else the input contains.
C2_DuplicateProviderError ==
    (AnalyzeReturned /\ HasDuplicate(parsed.Providers))
        => /\ err.kind = "duplicate"
           /\ result = Nil
           /\ \E i, j \in 1..Len(parsed.Providers) :
                  /\ i < j
                  /\ Key(parsed.Providers[i].ProvidedType) = err.key
                  /\ Key(parsed.Providers[j].ProvidedType) = err.key
                  /\ err.first = parsed.Providers[i].Name
                  /\ err.second = parsed.Providers[j].Name

\* a duplicate in an input that has other faults too: the first provider has
\* an unmet dependency and a dependency on itself
C2_Witness ==
    /\ AnalyzeReturned
    /\ err.kind = "duplicate"
    /\ Len(parsed.Providers) = 2
    /\ Key(parsed.Providers[1].ProvidedType) = Key(parsed.Providers[2].ProvidedType)
    /\ parsed.Providers[1].Name # parsed.Providers[2].Name
    /\ Len(parsed.Providers[1].Dependencies) = 2
    /\ \E j \in 1..2 :
           Key(parsed.Providers[1].Dependencies[j].Type) \notin Keys(parsed.Providers)
    /\ \E j \in 1..2 :
           parsed.Providers[1].Dependencies[j].Type = parsed.Providers[1].ProvidedType

\* the providers reachable from the set S of providers in one or more steps
RECURSIVE ReachableFrom(_, _, _)
ReachableFrom(providers, S, seen) ==
    LET next == {q \in 1..Len(providers) : \E i \in S : DependsOn(providers, i, q)}
    IN  IF next \subseteq seen THEN seen
        ELSE ReachableFrom(providers, next \ seen, seen \cup next)

HasCycle(providers) ==
    \E i \in 1..Len(providers) : i \in ReachableFrom(providers, {i}, {})

AllSatisfied(in) ==
    /\ \A i \in 1..Len(in.Providers) : \A j \in 1..Len(in.Providers[i].Dependencies) :
           Key(in.Providers[i].Dependencies[j].Type) \in Keys(in.Providers)
    /\ \A i \in 1..Len(in.Invocations) : \A j \in 1..Len(in.Invocations[i].Dependencies) :
           Key(in.Invocations[i].Dependencies[j]) \in Keys(in.Providers)

\* the calls in which topoSort ran on unique keys with every dependency satisfied
TopoSortRanComplete ==
    /\ pc = "return"
    /\ call \in {"Analyze", "topoSort"}
    /\ UniqueKeys(parsed.Providers)
    /\ AllSatisfied(parsed)

\* C3: for providers with unique keys and all dependencies satisfied, topoSort
\* returns a circular-dependency error if and only if the depends-on relation
\* among the providers has a cycle, wherever the cycle is declared and whether
\* or not an invocation reaches it.
C3_CycleErrorIffCycle ==
    TopoSortRanComplete => ((err.kind = "cycle") <=> HasCycle(parsed.Providers))

\* a cycle that no invocation reaches: the second provider depends on itself,
\* and the only invocation depends on the first provider, which is on no cycle
C3_Witness ==
    /\ AnalyzeReturned
    /\ err.kind = "cycle"
    /\ Len(parsed.Providers) = 2
    /\ Len(parsed.Invocations) = 1
    /\ parsed.Invocations[1].Dependencies = <<parsed.Providers[1].ProvidedType>>
    /\ parsed.Providers[1].Dependencies = <<>>
    /\ DependsOn(parsed.Providers, 2, 2)

CycleReported == pc = "return" /\ call \in {"Analyze", "topoSort"} /\ err.kind = "cycle"

\* C4 as claimed: the reported path begins and ends with the same key.
C4_PathBeginsAndEndsWithSameKey ==
    CycleReported => err.path[1] = err.path[Len(err.path)]

\* the keys topoSort starts a traversal from
RootKeys(in) ==
    UNION {{Key(in.Invocations[i].Dependencies[j]) :
                j \in 1..Len(in.Invocations[i].Dependencies)} : i \in 1..Len(in.Invocations)}
    \cup Keys(in.Providers)

KeyDependsOn(providers, k1, k2) ==
    \E i, q \in 1..Len(providers) :
        /\ Key(providers[i].ProvidedType) = k1
        /\ Key(providers[q].ProvidedType) = k2
        /\ DependsOn(providers, i, q)

\* C4, amended: the reported path starts at the key of the traversal root,
\* follows depends-on edges, and ends with a key that occurs exactly once
\* before in the path; the part from that occurrence to the end is the loop.
C4_PathEndsWithRepeatedKey ==
    CycleReported =>
        LET path == err.path
            n == Len(path)
        IN  /\ n >= 2
            /\ path[1] \in RootKeys(parsed)
            /\ \A a \in 1..(n - 1) : KeyDependsOn(parsed.Providers, path[a], path[a + 1])
            /\ \A a, b \in 1..(n - 1) : path[a] = path[b] => a = b
            /\ \E a \in 1..(n - 1) : path[a] = path[n]

\* a cycle reached from a root that is not on it
C4_Witness ==
    /\ CycleReported
    /\ Len(err.path) = 3
    /\ err.path[1] # err.path[3]
    /\ err.path[2] = err.path[3]

\* the places of the input where a dependency is declared
References(in) ==
    UNION {{<<"provider", i, j>> : j \in 1..Len(in.Providers[i].Dependencies)} :
               i \in 1..Len(in.Providers)}
    \cup UNION {{<<"invocation", i, j>> : j \in 1..Len(in.Invocations[i].Dependencies)} :
                    i \in 1..Len(in.Invocations)}

RefEntry(in, r) ==
    IF r[1] = "provider"
    THEN [requester |-> in.Providers[r[2]].Name,
          key |-> Key(in.Providers[r[2]].Dependencies[r[3]].Type)]
    ELSE [requester |-> in.Invocations[r[2]].Name,
          key |-> Key(in.Invocations[r[2]].Dependencies[r[3]])]

\* the references whose key no provider provides
Unmet(in) == {r \in References(in) : RefEntry(in, r).key \notin Keys(in.Providers)}

\* C5: validateDeps is a batch pass: when some dependency key of a provider or
\* invocation has no provider it returns one missing-dependencies error with
\* one entry (requester, unmet key) per unmet reference, none omitted and none
\* added; when no reference is unmet it returns no error.
C5_AllMissingReported ==
    (AnalyzeReturned /\ UniqueKeys(parsed.Providers)) =>
        IF Unmet(parsed) = {} THEN err.kind # "missing"
        ELSE /\ err.kind = "missing"
             /\ Len(err.missing) = Cardinality(Unmet(parsed))
             /\ \A r \in Unmet(parsed) :
                    Cardinality({e \in 1..Len(err.missing) :
                                     err.missing[e] = RefEntry(parsed, r)})
                        = Cardinality({u \in Unmet(parsed) :
                                           RefEntry(parsed, u) = RefEntry(parsed, r)})

\* two unmet references at once: a dependency of the second provider and a
\* dependency of an invocation
C5_Witness ==
    /\ AnalyzeReturned
    /\ err.kind = "missing"
    /\ Len(err.missing) = 2
    /\ Len(parsed.Providers) = 2
    /\ Len(parsed.Invocations) = 1
    /\ err.missing[1].requester = parsed.Providers[2].Name
    /\ err.missing[2].requester = parsed.Invocations[1].Name

\* C6 as claimed: after Analyze succeeds the variable names of the ordered
\* providers are pairwise distinct.
C6_VarNamesDistinct ==
    AnalyzeSucceeded =>
        \A i, j \in 1..Len(result.Providers) :
            result.Providers[i].VarName = result.Providers[j].VarName => i = j

\* the providers a call of resolveVarNames walked, with their base names
WalkedProviders ==
    IF call = "Analyze"
    THEN [i \in 1..Len(result.Providers) |->
             LET d == CHOOSE q \in 1..Len(parsed.Providers) :
                          Key(parsed.Providers[q].ProvidedType)
                              = Key(result.Providers[i].ProvidedType)
             IN  parsed.Providers[d]]
    ELSE parsed.Providers

WalkedNames == IF call = "Analyze" THEN result.Providers ELSE ret

\* C7: resolveVarNames walks the providers in their final order: the first
\* provider with a base name keeps it, the k-th later provider with that base
\* name gets the base name followed by k, and nothing else changes.
C7_VarNamesByFinalOrder ==
    ((AnalyzeSucceeded \/ (call = "resolveVarNames" /\ pc = "return"))) =>
        /\ Len(WalkedNames) = Len(WalkedProviders)
        /\ \A i \in 1..Len(WalkedNames) :
               LET base == WalkedProviders[i].VarName
                   k == Cardinality({e \in 1..(i - 1) : WalkedProviders[e].VarName = base})
               IN  WalkedNames[i] =
                       [WalkedProviders[i] EXCEPT
                            !.VarName = IF k = 0 THEN base ELSE base \o Itoa(k)]

\* the provider declared first comes second in the final order, after a
\* provider with the same base name, and is the one that gets the suffix
C7_Witness ==
    /\ AnalyzeSucceeded
    /\ Len(result.Providers) >= 2
    /\ result.Providers[2].ProvidedType = parsed.Providers[1].ProvidedType
    /\ parsed.Providers[1].VarName = <<"c", "f", "g">>
    /\ result.Providers[2].VarName = <<"c", "f", "g", "1">>
    /\ result.Providers[1].VarName = <<"c", "f", "g">>

\* the paths and the alias map of a call that returned one
AliasedPaths ==
    IF call = "Analyze"
    THEN CollectedPaths(result.Providers, result.Invocations, result.OutputImportPath)
    ELSE paths

AliasMap == IF call = "Analyze" THEN result.Imports ELSE ret

AliasesReturned ==
    AnalyzeSucceeded \/ (call = "resolveImportAliases" /\ pc = "return")

\* the name under which the generated file refers to a namespace
LocalName(path) == IF AliasMap[path] = <<>> THEN resolver[path] ELSE AliasMap[path]

\* C8 as claimed: the local names of the namespaces in the alias map are
\* pairwise distinct.
C8_LocalNamesDistinct ==
    AliasesReturned =>
        \A p, q \in DOMAIN AliasMap : LocalName(p) = LocalName(q) => p = q

\* C9: resolveImportAliases assigns aliases in lexicographic order of path:
\* among the paths with one short name the smallest gets the empty alias and
\* the k-th next one the short name followed by k; the keys of the result are
\* exactly the paths of the input set.
C9_AliasesByPathOrder ==
    AliasesReturned =>
        /\ DOMAIN AliasMap = AliasedPaths
        /\ \A p \in AliasedPaths :
               LET k == Cardinality({q \in AliasedPaths :
                                         resolver[q] = resolver[p] /\ StrLess(q, p)})
               IN  AliasMap[p] = IF k = 0 THEN <<>> ELSE resolver[p] \o Itoa(k)

\* three paths with one short name: the aliases are "", name1 and name2
C9_Witness ==
    /\ call = "resolveImportAliases"
    /\ pc = "return"
    /\ paths = {PathA, PathB, PathC}
    /\ ret[PathA] = <<>>
    /\ ret[PathB] = <<"h", "1">>
    /\ ret[PathC] = <<"h", "2">>

\* the external namespaces the generated file refers to: the owners of the
\* providers and invocations, the namespaces of the dependencies, and the
\* namespaces of the provided types (the types of the aggregate's fields)
ReferencedNamespaces(r) ==
    {path \in ReferencedPaths(r.Providers, r.Invocations)
              \cup {r.Providers[i].ProvidedType.ImportPath : i \in 1..Len(r.Providers)} :
        path # <<>> /\ path # r.OutputImportPath}

\* C10 as claimed: after Analyze succeeds the alias map has an entry for every
\* external namespace the generated program refers to.
C10_ImportsCoverReferences ==
    AnalyzeSucceeded => ReferencedNamespaces(result) \subseteq DOMAIN result.Imports

ImportsReturned == AnalyzeSucceeded \/ (call = "collectImports" /\ pc = "return")

\* the alias map that Analyze or a direct call of collectImports returned
ImportsMap == IF call = "Analyze" THEN result.Imports ELSE ret

\* C11: the alias map that collectImports builds has no entry for the empty
\* namespace and none for the output namespace, wherever these occur in the
\* input (provider, dependency, invocation, invocation dependency).
C11_NoEmptyNoOutputNamespace ==
    ImportsReturned =>
        /\ <<>> \notin DOMAIN ImportsMap
        /\ parsed.OutputImportPath \notin DOMAIN ImportsMap

\* a direct call in which the output namespace owns a provider, the only
\* invocation has no namespace and depends on a built-in type, and one
\* namespace is left to import
C11_Witness ==
    /\ call = "collectImports"
    /\ pc = "return"
    /\ Len(parsed.Providers) = 2
    /\ Len(parsed.Invocations) = 1
    /\ parsed.Providers[1].ImportPath = parsed.OutputImportPath
    /\ parsed.Providers[2].ImportPath = PathD
    /\ parsed.Invocations[1].ImportPath = <<>>
    /\ parsed.Invocations[1].Dependencies = <<TypeString>>
    /\ DOMAIN ret = {PathD}

\* the input with its providers and invocations declared in another order
Reordered(in, f, g) ==
    [in EXCEPT !.Providers = [i \in 1..Len(in.Providers) |-> in.Providers[f[i]]],
               !.Invocations = [i \in 1..Len(in.Invocations) |-> in.Invocations[g[i]]]]

\* C12: the alias map does not depend on the declaration order: when Analyze
\* succeeded, every successful analysis of the same providers and invocations
\* declared in another order, with the same resolver, returns the same
\* Result.Imports.
C12_ImportsIndependentOfDeclarationOrder ==
    AnalyzeSucceeded =>
        \A f \in Permutations(1..Len(parsed.Providers)),
           g \in Permutations(1..Len(parsed.Invocations)) :
            \A other \in Analyze(Reordered(parsed, f, g), resolver) :
                other.err = Nil => other.result.Imports = result.Imports

\* two providers whose namespaces collide on the short name, declared with the
\* lexicographically larger namespace first: it is the one that gets the alias
C12_Witness ==
    /\ AnalyzeSucceeded
    /\ Len(parsed.Providers) = 2
    /\ parsed.Providers[1].ImportPath = PathB
    /\ parsed.Providers[2].ImportPath = PathA
    /\ result.Imports[PathA] = <<>>
    /\ result.Imports[PathB] = <<"h", "1">>

\* the result holds every provider of the input once, the invocations as
\* declared, the output identity, and an alias for every collected namespace
CompleteResult ==
    /\ result # Nil
    /\ Len(result.Providers) = Len(parsed.Providers)
    /\ \A i \in 1..Len(parsed.Providers) :
           \E e \in 1..Len(result.Providers) :
               /\ result.Providers[e].Name = parsed.Providers[i].Name
               /\ result.Providers[e].ProvidedType = parsed.Providers[i].ProvidedType
    /\ result.Invocations = parsed.Invocations
    /\ result.PackageName = parsed.OutputPackage
    /\ result.OutputImportPath = parsed.OutputImportPath
    /\ DOMAIN result.Imports =
           CollectedPaths(parsed.Providers, parsed.Invocations, parsed.OutputImportPath)

\* C14: Analyze returns either a complete result and no error, or an error
\* (duplicate provider, missing dependencies or cycle) and a nil result.
C14_ResultOrError ==
    AnalyzeReturned =>
        \/ err = Nil /\ CompleteResult
        \/ err # Nil /\ err.kind \in {"duplicate", "missing", "cycle"} /\ result = Nil

\* a cycle found after another provider was already ordered: the first provider
\* has no dependency, the second depends on itself
C14_Witness ==
    /\ AnalyzeReturned
    /\ err.kind = "cycle"
    /\ result = Nil
    /\ Len(parsed.Providers) = 2
    /\ parsed.Providers[1].Dependencies = <<>>
    /\ DependsOn(parsed.Providers, 2, 2)

----------------------------------------------------------------------------
(* Properties of a run of the tool *)

RunWrote == call = "run" /\ file # Nil

RunFailed == call = "run" /\ pc = "failed"

\* C15: the output file is written only after every root was scanned, some
\* annotation was found, and Analyze and Generate succeeded; a run in which
\* a stage before the write fails ends with an error and an untouched file.
C15_WriteOnlyAfterSuccess ==
    /\ RunWrote =>
           /\ scanDirs = <<>>
           /\ Len(parsed.Providers) + Len(parsed.Invocations) > 0
           /\ result # Nil
           /\ result \in {out.result : out \in Analyze(parsed, resolver)}
           /\ code \in Generate(result, resolver)
           /\ pc = "done" => err = Nil /\ file = [kind |-> "file", content |-> code]
           /\ pc # "done" => pc = "failed" /\ err.kind = "write"
    /\ RunFailed =>
           /\ err # Nil
           /\ err.kind # "write" => file = Nil
    /\ (call = "run" /\ pc = "done") => RunWrote

\* a run over two providers and an invocation that wrote its output
C15_Witness ==
    /\ RunWrote
    /\ pc = "done"
    /\ Len(parsed.Providers) = 2
    /\ Len(parsed.Invocations) = 1
    /\ Len(file.content.body) >= 4

\* C13: Analyze followed by Generate is deterministic: whatever order the
\* ranges over the namespace set and over the alias map run in, another run
\* on the same ParseResult with the same resolver returns the same provider
\* order, variable names and alias map (or the same error) and the same text.
C13_Deterministic ==
    call = "run" =>
        /\ result # Nil =>
               \A out \in Analyze(parsed, resolver) : out.err = Nil /\ out.result = result
        /\ (pc = "failed" /\ err.kind \in {"duplicate", "missing", "cycle"}) =>
               \A out \in Analyze(parsed, resolver) : out.err = err /\ out.result = Nil
        /\ code # Nil => \A text \in Generate(result, resolver) : text = code

\* a text with two import entries whose namespaces collide on the short name,
\* so that the order of the walk decides which one gets the alias
C13_Witness ==
    /\ call = "run"
    /\ code # Nil
    /\ Len(result.Providers) = 2
    /\ code.imports = <<[alias |-> <<>>, path |-> PathA],
                        [alias |-> <<"h", "1">>, path |-> PathB]>>

\* the statements of the written text that initialize a provider
InitStmts(body) == SelectSeq(body, LAMBDA st : st.op \in {"struct", "call"})

\* the statements of the written text that call an invocation
InvokeStmts(body) == SelectSeq(body, LAMBDA st : st.op = "invoke")

\* C16: the entry point has one initialization statement per provider, in the
\* order of the analyzer's result, then one call per invocation, in the order
\* in which the invocations were declared; no call of an invocation comes
\* before the initialization of a provider.
C16_ProvidersThenInvocations ==
    (call = "run" /\ code # Nil) =>
        LET body == code.body
            inits == InitStmts(body)
            invokes == InvokeStmts(body)
        IN  /\ Len(inits) = Len(result.Providers)
            /\ \A i \in 1..Len(inits) :
                   /\ inits[i].var = result.Providers[i].VarName
                   /\ (inits[i].op = "struct")
                          <=> (result.Providers[i].Kind = ProviderKindStruct)
            /\ Len(invokes) = Len(parsed.Invocations)
            /\ \A i \in 1..Len(invokes) :
                   invokes[i].target =
                       qualifiedName(parsed.Invocations[i].Name,
                                     parsed.Invocations[i].ImportPath,
                                     parsed.OutputImportPath, result.Imports, resolver)
            /\ \A a, b \in 1..Len(body) :
                   (body[a].op = "invoke" /\ body[b].op \in {"struct", "call"}) => b < a

\* two providers that the analyzer reordered, and two invocations, of which the
\* first depends on the provider that is initialized last
C16_Witness ==
    /\ call = "run"
    /\ code # Nil
    /\ Len(result.Providers) = 2
    /\ result.Providers[1].Name = parsed.Providers[2].Name
    /\ Len(parsed.Invocations) = 2
    /\ Len(InvokeStmts(code.body)) = 2
    /\ InvokeStmts(code.body)[1].args = <<>>
    /\ Len(InitStmts(code.body)[2].args) + Len(InitStmts(code.body)[2].fields) = 1

\* how many of the first i statements are of one of the kinds ops
CountOps(body, i, ops) == Cardinality({j \in 1..i : body[j].op \in ops})

\* C18: the call of a function-kind provider binds the error and is followed
\* at once by the guard exactly when the provider can fail; the call of an
\* invocation is wrapped in the guard exactly when the invocation can fail;
\* there is no other guard.
C18_GuardIffCanError ==
    (call = "run" /\ code # Nil) =>
        LET body == code.body
        IN  \A i \in 1..Len(body) :
                /\ body[i].op = "call" =>
                       LET p == result.Providers[CountOps(body, i, {"struct", "call"})]
                       IN  /\ p.Kind = ProviderKindFunc
                           /\ body[i].failable <=> p.CanError
                           /\ body[i + 1].op = "guard" <=> p.CanError
                /\ body[i].op = "invoke" =>
                       (body[i].failable
                            <=> result.Invocations[CountOps(body, i, {"invoke"})].CanError)
                /\ body[i].op = "guard" => (i > 1 /\ body[i - 1].op = "call")
                /\ body[i].op \in {"struct", "return"} => ~body[i].failable

\* a function that can fail and one that cannot, then an invocation that can
\* fail and one that cannot
C18_Witness ==
    /\ call = "run"
    /\ code # Nil
    /\ Len(code.body) = 6
    /\ code.body[1].op = "call" /\ ~code.body[1].failable
    /\ code.body[2].op = "call" /\ code.body[2].failable
    /\ code.body[3].op = "guard"
    /\ code.body[4].op = "invoke" /\ ~code.body[4].failable
    /\ code.body[5].op = "invoke" /\ code.body[5].failable

\* Generate returned the text of a Result built by hand
GenerateReturned == call = "Generate" /\ pc = "return"

\* the dependencies of p that carry a field name
Tagged(p) == {j \in 1..Len(p.Dependencies) : p.Dependencies[j].FieldName # <<>>}

\* C19: the statement of a struct-kind provider assigns, for every dependency
\* with a field name, the variable name of that dependency's provider to that
\* field, in the order of the dependencies; it holds nothing for a dependency
\* without a field name, and is the empty instance when no dependency has one.
C19_StructFieldAssignments ==
    GenerateReturned =>
        \A i \in 1..Len(parsed.Providers) :
            parsed.Providers[i].Kind = ProviderKindStruct =>
                LET p == parsed.Providers[i]
                    st == InitStmts(ret.body)[i]
                    provided(t) == CHOOSE q \in 1..Len(parsed.Providers) :
                                       Key(parsed.Providers[q].ProvidedType) = Key(t)
                IN  /\ st.op = "struct"
                    /\ st.var = p.VarName
                    /\ st.args = <<>>
                    /\ Len(st.fields) = Cardinality(Tagged(p))
                    /\ \A j \in Tagged(p) :
                           LET f == st.fields[Cardinality({k \in Tagged(p) : k <= j})]
                           IN  /\ f.name = p.Dependencies[j].FieldName
                               /\ f.value =
                                      parsed.Providers[provided(p.Dependencies[j].Type)].VarName
                    /\ Tagged(p) = {} => st.fields = <<>>

\* a struct with a dependency without a field name before one with a field
\* name: only the second is assigned, the variable of the function of b/h
C19_Witness ==
    /\ GenerateReturned
    /\ Len(parsed.Providers[3].Dependencies) = 2
    /\ parsed.Providers[3].Dependencies[1].FieldName = <<>>
    /\ parsed.Providers[3].Dependencies[2] = [FieldName |-> <<"D", "2">>, Type |-> TypeCfgB]
    /\ ret.body[4].op = "struct"
    /\ ret.body[4].fields = <<[name |-> <<"D", "2">>, value |-> parsed.Providers[1].VarName]>>

\* where the statement that initializes the j-th provider stands in the text
InitStmtAt(body, j) ==
    CHOOSE i \in 1..Len(body) :
        body[i].op \in {"struct", "call"} /\ CountOps(body, i, {"struct", "call"}) = j

\* the statements of the entry point that construct or call, in its order
Steps(body) ==
    SelectSeq([i \in 1..Len(body) |-> [at |-> i, op |-> body[i].op]],
              LAMBDA st : st.op \in {"struct", "call", "invoke"})

\* C17: the entry point runs the constructions and the invocations in the
\* order of its text; a step that returned an error is the last one that ran,
\* and the entry point then returns nil with that error; when it returns no
\* error every step ran, none failed, and every field of the aggregate holds
\* what the initialization of its provider built.
C17_StopsAtFirstFailure ==
    call = "app" =>
        LET steps == Steps(code.body)
        IN  /\ Len(ran) <= Len(steps)
            /\ \A k \in 1..Len(ran) :
                   /\ ran[k].at = steps[k].at
                   /\ ran[k].failed => k = Len(ran)
            /\ (Len(ran) > 0 /\ ran[Len(ran)].failed) =>
                   \/ returned = Nil /\ AtOp({"guard"})
                   \/ returned = ReturnError(Len(ran))
            /\ (returned # Nil /\ returned.err # Nil) =>
                   /\ returned.app = Nil
                   /\ Len(ran) > 0 /\ ran[Len(ran)].failed
            /\ (returned # Nil /\ returned.err = Nil) =>
                   /\ Len(ran) = Len(steps)
                   /\ \A k \in 1..Len(ran) : ~ran[k].failed
                   /\ Len(returned.app) = Len(result.Providers)
                   /\ \A j \in 1..Len(returned.app) :
                          /\ returned.app[j].name = result.Providers[j].ProvidedType.Name
                          /\ returned.app[j].built = {InitStmtAt(code.body, j)}

\* the first of two providers failed: the entry point returned nil and its
\* error, and neither the second provider nor the invocation ran
C17_Witness ==
    /\ call = "app"
    /\ Len(result.Providers) = 2
    /\ Len(result.Invocations) >= 1
    /\ code.body[1].op = "call"
    /\ ran = <<[at |-> 1, failed |-> TRUE]>>
    /\ returned = [app |-> Nil, err |-> [at |-> 1]]

\* the calls of ResolveName that returned
Done == {i \in 1..Len(callers) : callers[i].pc = "done"}

\* C20: whatever the interleaving, the calls of ResolveName with one path
\* that returned all returned one name, the one the cache holds for the path,
\* which is the one stored first: an entry of the cache never changes.
C20_OneNamePerPath ==
    /\ [](call = "ResolveName" =>
             \A i \in Done :
                 /\ callers[i].path \in DOMAIN cache
                 /\ callers[i].ret = cache[callers[i].path]
                 /\ \A j \in Done :
                        callers[j].path = callers[i].path => callers[j].ret = callers[i].ret)
    /\ [][\A p \in DOMAIN cache : p \in DOMAIN cache' /\ cache'[p] = cache[p]]_vars

\* two calls with one path both ran the computation and got different names;
\* both returned the name of the first
C20_Witness ==
    /\ call = "ResolveName"
    /\ Len(callers) = 2
    /\ Done = {1, 2}
    /\ callers[1].path = callers[2].path
    /\ callers[1].name # <<>> /\ callers[2].name # <<>>
    /\ callers[1].name # callers[2].name
    /\ callers[2].ret = callers[1].name

\* C21: once a call of ResolveName with a path has returned, a call with that
\* path that starts later returns the same name at its first step, without
\* running the computation; no step changes or removes an entry of the cache.
C21_Memoized ==
    [][/\ \A i, j \in 1..Len(callers) :
              (/\ callers[j].pc = "done"
               /\ callers[i].pc = "Load"
               /\ callers[i].path = callers[j].path
               /\ callers'[i] # callers[i])
                  => /\ callers'[i].pc = "done"
                     /\ callers'[i].ret = callers[j].ret
                     /\ callers'[i].name = <<>>
       /\ \A p \in DOMAIN cache : Load(cache', p) = [value |-> cache[p], ok |-> TRUE]]_vars

\* the first call ran the computation and returned; the second call, with the
\* same path, started after that and returned the same name without
\* computing one
C21_Witness ==
    /\ call = "ResolveName"
    /\ Len(callers) = 2
    /\ callers[1].path = callers[2].path
    /\ callers[1].pc = "done" /\ callers[1].name # <<>>
    /\ callers[2].pc = "done" /\ callers[2].name = <<>>
    /\ callers[2].ret = callers[1].ret

\* the declarations of the scanned files, in the order the scan meets them
RECURSIVE Flat(_)
Flat(files) == IF files = <<>> THEN <<>> ELSE Head(files) \o Flat(Tail(files))

\* a function (not a method) annotated as provider and as invocation
IsConflict(d) == d.node = "func" /\ d.provide /\ d.invoke

\* C22: when the scan meets a function annotated as provider and as
\* invocation, having met no error before, it ends with the conflict error
\* that names the function; the result holds no provider and no invocation
\* of that name, and only what the declarations before it gave.
C22_ConflictIsTerminal ==
    (call = "Parse" /\ pc = "return") =>
        LET flat == Flat(parsed)
            fails(d) == IsConflict(d) \/ (d.node = "func" /\ d.provide /\ d.results = 0)
        IN  \A k \in 1..Len(flat) :
                (IsConflict(flat[k]) /\ \A j \in 1..(k - 1) : ~fails(flat[j])) =>
                    /\ err = [kind |-> "conflict", name |-> flat[k].name]
                    /\ \A i \in 1..Len(result.Providers) :
                           result.Providers[i].Name # flat[k].name
                    /\ \A i \in 1..Len(result.Invocations) :
                           result.Invocations[i].Name # flat[k].name
                    /\ Len(result.Providers) =
                           Cardinality({j \in 1..(k - 1) :
                                           flat[j].node # "method" /\ flat[j].provide})
                    /\ Len(result.Invocations) =
                           Cardinality({j \in 1..(k - 1) :
                                           flat[j].node = "func" /\ flat[j].invoke})

\* a provider, then the function with both annotations, then a second file
\* with an invocation: only the provider is in the result
C22_Witness ==
    /\ call = "Parse" /\ pc = "return"
    /\ Len(parsed) = 2
    /\ Len(parsed[1]) = 2
    /\ parsed[1][1].name = <<"F">> /\ parsed[1][2].name = <<"B">>
    /\ parsed[2][1].name = <<"G">>
    /\ err = [kind |-> "conflict", name |-> <<"B">>]
    /\ Len(result.Providers) = 1 /\ result.Providers[1].Name = <<"F">>
    /\ result.Invocations = <<>>

\* the calls of LoadOrStore made so far with the key of the k-th
SameKey(k) == {j \in 1..Len(callers) : callers[j].key = callers[k].key}

\* C23: a call of LoadOrStore with a key no earlier call had stores its value
\* and returns it with loaded = false; a call with a key an earlier call had
\* returns the value of the first such call with loaded = true; the map then
\* holds, for every key, the value of the first call with that key.
C23_FirstWriterWins ==
    call = "LoadOrStore" =>
        /\ DOMAIN cache = {callers[k].key : k \in 1..Len(callers)}
        /\ \A k \in 1..Len(callers) :
               LET first == CHOOSE j \in SameKey(k) : \A x \in SameKey(k) : j <= x
               IN  /\ callers[k].loaded <=> (first < k)
                   /\ callers[k].actual = callers[first].value
                   /\ cache[callers[k].key] = callers[first].value

\* three calls with one key and the values h, h1, h: the second and third
\* found h
C23_Witness ==
    /\ call = "LoadOrStore"
    /\ Len(callers) = 3
    /\ SameKey(1) = {1, 2, 3}
    /\ callers[1].value = <<"h">> /\ ~callers[1].loaded
    /\ callers[2].value = <<"h", "1">> /\ callers[2].loaded /\ callers[2].actual = <<"h">>
    /\ callers[3].loaded
    /\ cache[callers[1].key] = <<"h">>

\* C24: Analyze reports the first failing class only: the duplicate-provider
\* error whenever two providers share a key, whatever else is wrong; the
\* missing-dependencies error whenever no key is shared and some reference is
\* unmet, cycle or not; the cycle error only when neither is the case.
C24_FirstFailingClassOnly ==
    AnalyzeReturned =>
        /\ HasDuplicate(parsed.Providers) => (err.kind = "duplicate" /\ result = Nil)
        /\ (~HasDuplicate(parsed.Providers) /\ Unmet(parsed) # {})
               => (err.kind = "missing" /\ result = Nil)
        /\ err.kind = "cycle"
               => (~HasDuplicate(parsed.Providers) /\ Unmet(parsed) = {})

\* a provider that depends on itself and on a type nobody provides: the
\* missing dependency is reported, not the cycle
C24_Witness ==
    /\ AnalyzeReturned
    /\ ~HasDuplicate(parsed.Providers)
    /\ Len(parsed.Providers) >= 1
    /\ DependsOn(parsed.Providers, 1, 1)
    /\ HasCycle(parsed.Providers)
    /\ Unmet(parsed) # {}
    /\ err.kind = "missing"

\* the providers that provide a dependency of an invocation, and those
\* reachable from them
InvocationReach(in) ==
    LET roots == {q \in 1..Len(in.Providers) :
                     \E i \in 1..Len(in.Invocations) :
                         \E j \in 1..Len(in.Invocations[i].Dependencies) :
                             Key(in.Invocations[i].Dependencies[j])
                                 = Key(in.Providers[q].ProvidedType)}
    IN  ReachableFrom(in.Providers, roots, roots)

\* where the q-th provider of the input stands in the returned order
PlaceOf(q) ==
    CHOOSE e \in 1..Len(ReturnedOrder) :
        ReturnedOrder[e].ProvidedType = parsed.Providers[q].ProvidedType

\* C25: in a successful result, every provider that an invocation depends
\* on, directly or through other providers, stands before every provider that
\* no invocation reaches; when there are no invocations and no provider has a
\* dependency, the order is the declaration order.
C25_InvocationRootsFirst ==
    ((AnalyzeSucceeded \/ (TopoSortReturned /\ err = Nil))
        /\ UniqueKeys(parsed.Providers)) =>
        /\ \A q1 \in InvocationReach(parsed) :
               \A q2 \in (1..Len(parsed.Providers)) \ InvocationReach(parsed) :
                   PlaceOf(q1) < PlaceOf(q2)
        /\ (/\ parsed.Invocations = <<>>
            /\ \A i \in 1..Len(parsed.Providers) : parsed.Providers[i].Dependencies = <<>>)
               => /\ Len(ReturnedOrder) = Len(parsed.Providers)
                  /\ \A i \in 1..Len(parsed.Providers) : PlaceOf(i) = i

\* the invocation depends on the provider declared second, which is returned
\* first; the provider declared first, which nothing depends on, comes after
C25_Witness ==
    /\ TopoSortReturned /\ err = Nil
    /\ Len(parsed.Providers) = 2
    /\ InvocationReach(parsed) = {2}
    /\ parsed.Providers[1].Dependencies = <<>>
    /\ PlaceOf(2) = 1 /\ PlaceOf(1) = 2

\* provider a of the result is provider b of the input, whatever its
\* variable name
SameProvider(a, b) == [a EXCEPT !.VarName = b.VarName] = b

\* C26: when Analyze succeeds, the ordered providers are the providers of
\* the input, each exactly once: as many as the input has, and every one of
\* the input at exactly one place.
C26_OrderIsPermutation ==
    AnalyzeSucceeded =>
        /\ Len(result.Providers) = Len(parsed.Providers)
        /\ \A i \in 1..Len(parsed.Providers) :
               Cardinality({e \in 1..Len(result.Providers) :
                               SameProvider(result.Providers[e], parsed.Providers[i])}) = 1

\* the provider declared second is reached twice, from an invocation and
\* from the provider declared first, which nothing depends on: both are in
\* the result once
C26_Witness ==
    /\ AnalyzeSucceeded
    /\ Len(parsed.Providers) = 2
    /\ Len(parsed.Invocations) = 1
    /\ InvocationReach(parsed) = {2}
    /\ DependsOn(parsed.Providers, 1, 2)
    /\ SameProvider(result.Providers[1], parsed.Providers[2])
    /\ SameProvider(result.Providers[2], parsed.Providers[1])

\* C27: a call of Analyze leaves its input as it was, the providers with
\* their variable names and dependencies and the invocations, whether it
\* returns a result or an error; the invocations of a result are those of the
\* input, and the providers of a result have the variable names that
\* resolveVarNames gives them.
C27_InputNotModified ==
    [][(call = "Analyze" /\ pc = "call") =>
           /\ parsed' = parsed
           /\ err' = Nil =>
                  /\ result'.Invocations = parsed.Invocations
                  /\ result'.Providers =
                         resolveVarNames(
                             [e \in 1..Len(result'.Providers) |->
                                 parsed.Providers[
                                     CHOOSE i \in 1..Len(parsed.Providers) :
                                         SameProvider(result'.Providers[e],
                                                      parsed.Providers[i])]])]_vars

\* Analyze gave the second provider of its result a suffix; the provider of
\* the input still has the name the scanner gave it
C27_Witness ==
    /\ AnalyzeSucceeded
    /\ Len(result.Providers) = 2
    /\ \E i \in 1..2 :
           /\ SameProvider(result.Providers[2], parsed.Providers[i])
           /\ parsed.Providers[i].VarName = toLowerCamel(parsed.Providers[i].ProvidedType.Name)
           /\ result.Providers[2].VarName = SprintfSD(parsed.Providers[i].VarName, 1)

\* the keys of the dependencies whose variables statement u of the program
\* uses, in the order of its arguments or fields
UsedKeys(body, u) ==
    IF body[u].op = "invoke"
    THEN InvocationDepKeys(result.Invocations[CountOps(body, u, {"invoke"})])
    ELSE IF body[u].op \in {"struct", "call"}
    THEN LET p == result.Providers[CountOps(body, u, {"struct", "call"})]
         IN  [j \in 1..Len(p.Dependencies) |-> Key(p.Dependencies[j].Type)]
    ELSE <<>>

\* the variable names statement u uses, in the same order
UsedNames(body, u) ==
    IF body[u].op = "struct"
    THEN [j \in 1..Len(body[u].fields) |-> body[u].fields[j].value]
    ELSE body[u].args

\* C28 as claimed: every variable that a statement of the generated program
\* uses as argument or field value is the variable of the provider of that
\* dependency's key: the statement that initializes that provider stands
\* strictly before the use, declares the name used, and is the last
\* statement before the use that declares it.
C28_UsesVariableOfProvider ==
    (call = "run" /\ code # Nil) =>
        \A u \in 1..Len(code.body) :
            /\ Len(UsedNames(code.body, u)) = Len(UsedKeys(code.body, u))
            /\ \A j \in 1..Len(UsedKeys(code.body, u)) :
                   LET q == CHOOSE x \in 1..Len(result.Providers) :
                                Key(result.Providers[x].ProvidedType)
                                    = UsedKeys(code.body, u)[j]
                       at == InitStmtAt(code.body, q)
                       name == UsedNames(code.body, u)[j]
                   IN  /\ name = result.Providers[q].VarName
                       /\ code.body[at].var = name
                       /\ at < u
                       /\ \A x \in 1..(u - 1) :
                              (code.body[x].op \in {"struct", "call"}
                                   /\ code.body[x].var = name) => x <= at

\* the keys of the pending calls of visit, innermost last
PendingKeys(t) == [i \in 1..Len(t.frames) |-> Key(t.frames[i].p.ProvidedType)]

C30_AnalyzeTerminates ==
    /\ <>(call = "Analyze" /\ pc = "return")
    /\ [](topo # Nil =>
            \A i, j \in 1..Len(topo.entered) : i # j => topo.entered[i] # topo.entered[j])
    /\ []((call = "Analyze" /\ pc = "return" /\ HasCycle(parsed.Providers)) =>
            /\ err # Nil
            /\ result = Nil
            /\ topo # Nil => err.kind = "cycle")

\* Analyze returned the cycle error after visit went two providers deep
C30_Witness ==
    /\ call = "Analyze" /\ pc = "return"
    /\ topo # Nil
    /\ HasCycle(parsed.Providers)
    /\ err # Nil
    /\ err.kind = "cycle"
    /\ Len(topo.entered) >= 2

====
